---- MODULE Spec2Model ----
(***************************************************************************)
(* Pleb Signer: the permission check and the rate limiter                  *)
(* (src/src/permissions.rs), the key manager (src/src/keys.rs), the        *)
(* authorization list (src/src/config.rs), the D-Bus interface             *)
(* (src/src/dbus.rs, src/src/signing.rs) and the NIP-46 bunker signer      *)
(* with its listener thread (src/src/bunker.rs), as state machines.        *)
(*                                                                         *)
(* The specifications share the variables; each one moves its own group    *)
(* and leaves the others at their initial value:                           *)
(*   SpecPerm        PermissionChecker::check_permission on drawn inputs   *)
(*   SpecRate        RateLimiter::check_and_record under a monotonic clock *)
(*   SpecKeys        KeyManager: generate, set active, delete, lock, read  *)
(*   SpecConfig      Config::authorize_app and Config::revoke_app          *)
(*   SpecDbus        one call of a SignerInterface method                  *)
(*   SpecBunker      start_listening()/stop() called from two tasks at     *)
(*                   once, the listener threads, connect requests          *)
(*   SpecSequential  the same with one caller, calls one after another;    *)
(*                   SpecSequentialFair adds the scheduling fairness       *)
(*   SpecDispatch    one caller, one listener, every NIP-46 method, and    *)
(*                   the key manager changing under the listener           *)
(*   SpecCleanup     SpecRate with RateLimiter::cleanup called in between  *)
(*   SpecUri         generate_bunker_uri on drawn relays, secret and key   *)
(*   SpecLocks       the code paths that take the state and key-manager    *)
(*                   mutexes, interleaved                                  *)
(*   SpecIdentity    one listener serving requests while the active key    *)
(*                   is changed or deleted                                 *)
(*   SpecSign        sign_event of one unsigned event over the bunker and  *)
(*                   over the local interface                              *)
(***************************************************************************)
EXTENDS Integers, Sequences, FiniteSets, TLC

VARIABLES
    \* ---- PermissionChecker::check_permission, its arguments and result
    permissions,      \* &AppPermissions
    request_type,     \* RequestType
    event_kind,       \* Option<u16>
    perm_result,      \* Option<bool>: None before the call, then the bool returned
    \* ---- RateLimiter
    now,              \* std::time::Instant::now(), in seconds
    max_per_minute,   \* RateLimiter.max_per_minute
    requests,         \* RateLimiter.requests: app_id -> (RequestType -> Vec<Instant>)
    recorded,         \* history: every instant a call was allowed at, per (app, type)
    last_call,        \* history: the last check_and_record call and what it returned
    ncalls,           \* history: number of check_and_record calls so far
    nticks,           \* history: number of clock advances so far
    requests_uncleaned, \* history: the ledger as it would be had cleanup never run
    \* ---- BunkerSigner and what it shares
    state,            \* BunkerSigner.state: Arc<Mutex<BunkerState>>
    stop_flag,        \* BunkerSigner.stop_flag: Arc<AtomicBool>
    listener_handle,  \* BunkerSigner.listener_handle: Option<JoinHandle>
    key_manager,      \* Arc<Mutex<KeyManager>>
    authorized_apps,  \* Config.authorized_apps
    tasks,            \* the callers of start_listening() and stop(), where each stands
    listeners,        \* the listener threads spawned so far, where each stands
    last_published,   \* history: the last response event sent to the relays
    \* ---- the local side: AppState and the D-Bus interface
    is_locked,        \* AppState.is_locked
    dbus_reply,       \* history: the last D-Bus method call and the DbusResponse returned
    config_call,      \* history: the last authorize_app / revoke_app call on the Config
    \* ---- BunkerSigner's configuration and the calls made one at a time
    relays,           \* BunkerSigner.relays
    secret,           \* BunkerSigner.secret
    uri_call,         \* history: the last generate_bunker_uri call and its result
    sign_call,        \* an unsigned event and what each path made of it
    \* ---- the two tokio mutexes and the code paths that take them
    state_lock,       \* who holds BunkerSigner.state's Mutex
    km_lock,          \* who holds the key manager's Mutex
    paths             \* each code path, the step it stands at

permVars == <<permissions, request_type, event_kind, perm_result>>
rateVars == <<now, max_per_minute, requests, recorded, last_call, ncalls, nticks,
              requests_uncleaned>>
bunkerVars == <<state, stop_flag, listener_handle, key_manager, authorized_apps,
                tasks, listeners, last_published>>
localVars == <<is_locked, dbus_reply, config_call>>
callVars == <<relays, secret, uri_call, sign_call, state_lock, km_lock, paths>>
vars == <<permVars, rateVars, bunkerVars, localVars, callVars>>

(***************************************************************************)
(* Option<T>                                                               *)
(***************************************************************************)
None == [is_some |-> FALSE]
Some(x) == [is_some |-> TRUE, v |-> x]

SeqsUpTo(S, n) == UNION {[1..k -> S] : k \in 0..n}

\* u16::MAX
U16Max == 65535

(***************************************************************************)
(* permissions.rs: RequestType and AppPermissions                          *)
(***************************************************************************)
RequestType ==
    {"GetPublicKey", "SignEvent", "Nip04Encrypt", "Nip04Decrypt",
     "Nip44Encrypt", "Nip44Decrypt", "DecryptZapEvent"}

\* Vec::contains
contains(vec, x) == \E i \in 1..Len(vec) : vec[i] = x

check_permission_emptyAllows(perms, rt, ek) ==
    CASE rt = "GetPublicKey" -> perms.get_public_key
      [] rt = "SignEvent" ->
            IF ~perms.sign_event.is_some THEN TRUE
            ELSE IF ek.is_some THEN contains(perms.sign_event.v, ek.v)
            ELSE TRUE
      [] rt = "Nip04Encrypt" -> perms.nip04_encrypt
      [] rt = "Nip04Decrypt" -> perms.nip04_decrypt
      [] rt = "Nip44Encrypt" -> perms.nip44_encrypt
      [] rt = "Nip44Decrypt" -> perms.nip44_decrypt
      [] rt = "DecryptZapEvent" -> perms.decrypt_zap_event

\* PermissionChecker::check_permission
check_permission(perms, rt, ek) ==
    CASE rt = "GetPublicKey" -> perms.get_public_key
      [] rt = "SignEvent" ->
            IF ~perms.sign_event.is_some THEN TRUE
            ELSE IF Len(perms.sign_event.v) = 0 THEN FALSE
            ELSE IF ek.is_some THEN contains(perms.sign_event.v, ek.v)
            ELSE FALSE
      [] rt = "Nip04Encrypt" -> perms.nip04_encrypt
      [] rt = "Nip04Decrypt" -> perms.nip04_decrypt
      [] rt = "Nip44Encrypt" -> perms.nip44_encrypt
      [] rt = "Nip44Decrypt" -> perms.nip44_decrypt
      [] rt = "DecryptZapEvent" -> perms.decrypt_zap_event

\* Inputs of the permission check.
MaxAllowlistLen == 2
Kinds == {0, 1, 4, 7}
AllowlistKinds == {1, 4}

AppPermissionsSet ==
    [get_public_key : BOOLEAN,
     sign_event : {None} \cup {Some(s) : s \in SeqsUpTo(AllowlistKinds, MaxAllowlistLen)},
     nip04_encrypt : BOOLEAN, nip04_decrypt : BOOLEAN,
     nip44_encrypt : BOOLEAN, nip44_decrypt : BOOLEAN,
     decrypt_zap_event : BOOLEAN]

\* AppPermissions::default() (derived Default: every bool false, sign_event None)
DefaultPermissions ==
    [get_public_key |-> FALSE, sign_event |-> None,
     nip04_encrypt |-> FALSE, nip04_decrypt |-> FALSE,
     nip44_encrypt |-> FALSE, nip44_decrypt |-> FALSE,
     decrypt_zap_event |-> FALSE]

PermIdle ==
    /\ permissions = DefaultPermissions
    /\ request_type = "GetPublicKey"
    /\ event_kind = None
    /\ perm_result = None

PermInit ==
    /\ permissions \in AppPermissionsSet
    /\ request_type \in RequestType
    /\ event_kind \in {None} \cup {Some(k) : k \in Kinds}
    /\ perm_result = None

CheckPermission ==
    /\ ~perm_result.is_some
    /\ perm_result' = Some(check_permission(permissions, request_type, event_kind))
    /\ UNCHANGED <<permissions, request_type, event_kind>>
    /\ UNCHANGED <<rateVars, bunkerVars, localVars, callVars>>

(***************************************************************************)
(* permissions.rs: RateLimiter                                             *)
(***************************************************************************)
Apps == {"app1", "app2"}
RateTypes == {"SignEvent", "GetPublicKey"}

WindowSecs == 60
MaxCeiling == 2
MaxCalls == 4
MaxTicks == 3
TickSteps == {1, WindowSecs - 1}

\* HashMap::entry(k).or_default(), then a write through the entry
Put(map, k, val) == [x \in DOMAIN map \cup {k} |-> IF x = k THEN val ELSE map[x]]
GetOr(map, k, default) == IF k \in DOMAIN map THEN map[k] ELSE default
EmptyMap == [x \in {} |-> <<>>]

\* Vec::retain(|t| *t > one_minute_ago)
retain_recent(vec, one_minute_ago) == SelectSeq(vec, LAMBDA t : t > one_minute_ago)

check_and_record_keepsExpired(reqs, ceiling, instant, app_id, rt) ==
    LET one_minute_ago == instant - WindowSecs
        app_requests == GetOr(reqs, app_id, EmptyMap)
        type_requests == GetOr(app_requests, rt, <<>>)
        retained == SelectSeq(type_requests, LAMBDA t : t >= one_minute_ago)
        ok == Len(retained) < ceiling
        after == IF ok THEN Append(retained, instant) ELSE retained
    IN  [ok |-> ok, requests |-> Put(reqs, app_id, Put(app_requests, rt, after))]

check_and_record_recordsDenied(reqs, ceiling, instant, app_id, rt) ==
    LET one_minute_ago == instant - WindowSecs
        app_requests == GetOr(reqs, app_id, EmptyMap)
        type_requests == GetOr(app_requests, rt, <<>>)
        retained == retain_recent(type_requests, one_minute_ago)
        ok == Len(retained) < ceiling
        after == Append(retained, instant)
    IN  [ok |-> ok, requests |-> Put(reqs, app_id, Put(app_requests, rt, after))]

check_and_record_perApp(reqs, ceiling, instant, app_id, rt) ==
    LET one_minute_ago == instant - WindowSecs
        app_requests == GetOr(reqs, app_id, EmptyMap)
        type_requests == GetOr(app_requests, rt, <<>>)
        retained == retain_recent(type_requests, one_minute_ago)
        others == {o \in DOMAIN app_requests : o # rt}
        total == Len(retained)
                 + Cardinality({<<o, i>> \in others \X (1..MaxCalls) :
                                  /\ i <= Len(app_requests[o])
                                  /\ app_requests[o][i] > one_minute_ago})
        ok == total < ceiling
        after == IF ok THEN Append(retained, instant) ELSE retained
    IN  [ok |-> ok, requests |-> Put(reqs, app_id, Put(app_requests, rt, after))]

\* RateLimiter::check_and_record: the bool returned and self.requests after it
check_and_record(reqs, ceiling, instant, app_id, rt) ==
    LET one_minute_ago == instant - WindowSecs
        app_requests == GetOr(reqs, app_id, EmptyMap)
        type_requests == GetOr(app_requests, rt, <<>>)
        retained == retain_recent(type_requests, one_minute_ago)
        ok == Len(retained) < ceiling
        after == IF ok THEN Append(retained, instant) ELSE retained
    IN  [ok |-> ok, requests |-> Put(reqs, app_id, Put(app_requests, rt, after))]

cleanup_dropsWholeApp(reqs, instant) ==
    LET one_minute_ago == instant - WindowSecs
        pruned == [a \in DOMAIN reqs |->
                      [rt \in DOMAIN reqs[a] |-> retain_recent(reqs[a][rt], one_minute_ago)]]
        apps == {a \in DOMAIN pruned : \A rt \in DOMAIN pruned[a] : pruned[a][rt] # <<>>}
    IN  [a \in apps |-> pruned[a]]

\* RateLimiter::cleanup: every history pruned to the window, then the empty
\* histories and the apps left without a history removed
cleanup(reqs, instant) ==
    LET one_minute_ago == instant - WindowSecs
        pruned == [a \in DOMAIN reqs |->
                      [rt \in DOMAIN reqs[a] |-> retain_recent(reqs[a][rt], one_minute_ago)]]
        kept(a) == {rt \in DOMAIN pruned[a] : pruned[a][rt] # <<>>}
        apps == {a \in DOMAIN pruned : kept(a) # {}}
    IN  [a \in apps |-> [rt \in kept(a) |-> pruned[a][rt]]]

NoCall == [made |-> FALSE]

RateIdle ==
    /\ now = 0
    /\ max_per_minute = 0
    /\ requests = EmptyMap
    /\ recorded = [p \in Apps \X RateTypes |-> <<>>]
    /\ last_call = NoCall
    /\ ncalls = 0
    /\ nticks = 0
    /\ requests_uncleaned = EmptyMap

\* RateLimiter::new(max_per_minute)
RateInit ==
    /\ now = 0
    /\ max_per_minute \in 0..MaxCeiling
    /\ requests = EmptyMap
    /\ recorded = [p \in Apps \X RateTypes |-> <<>>]
    /\ last_call = NoCall
    /\ ncalls = 0
    /\ nticks = 0
    /\ requests_uncleaned = EmptyMap

\* The monotonic clock advances between calls.
Tick ==
    /\ nticks < MaxTicks
    /\ \E d \in TickSteps : now' = now + d
    /\ nticks' = nticks + 1
    /\ UNCHANGED <<max_per_minute, requests, recorded, last_call, ncalls,
                   requests_uncleaned>>
    /\ UNCHANGED <<permVars, bunkerVars, localVars, callVars>>

CheckAndRecord ==
    /\ ncalls < MaxCalls
    /\ \E app_id \in Apps, rt \in RateTypes :
         LET r == check_and_record(requests, max_per_minute, now, app_id, rt)
             u == check_and_record(requests_uncleaned, max_per_minute, now, app_id, rt)
             seen == Len(SelectSeq(recorded[<<app_id, rt>>],
                                   LAMBDA t : t > now - WindowSecs))
         IN  /\ requests' = r.requests
             /\ recorded' = IF r.ok
                            THEN [recorded EXCEPT ![<<app_id, rt>>] = Append(@, now)]
                            ELSE recorded
             /\ last_call' = [made |-> TRUE, app_id |-> app_id, rt |-> rt,
                               ok |-> r.ok, at |-> now, seen |-> seen,
                              before |-> requests,
                              prior |-> recorded[<<app_id, rt>>],
                              uncleaned_ok |-> u.ok]
             /\ requests_uncleaned' = u.requests
    /\ ncalls' = ncalls + 1
    /\ UNCHANGED <<now, max_per_minute, nticks>>
    /\ UNCHANGED <<permVars, bunkerVars, localVars, callVars>>

\* cleanup() is called ("Clear old entries periodically").
Cleanup ==
    /\ requests' = cleanup(requests, now)
    /\ UNCHANGED <<now, max_per_minute, recorded, last_call, ncalls, nticks,
                   requests_uncleaned>>
    /\ UNCHANGED <<permVars, bunkerVars, localVars, callVars>>

(***************************************************************************)
(* keys.rs: KeyManager                                                     *)
(***************************************************************************)
\* The names keys are stored under, and the key pairs (nostr Keys) there are.
KeyNames == {"main", "alt", "spare"}
Secrets == {"alice", "bob"}

\* The public key of a key pair, hex form (Keys::public_key().to_hex()) and
\* bech32 form (to_bech32()).
pubkey_hex(keys) == <<"hex", keys>>
npub(keys) == <<"npub", keys>>

\* Display of SignerError (#[error("...")])
to_string(err) ==
    CASE err = "NoKeysConfigured" -> "No keys configured"
      [] err = "DecryptionError" -> "Decryption error"

\* HashMap::remove
Remove(map, k) == [x \in DOMAIN map \ {k} |-> map[x]]

\* KeyMetadata, its public fields
KeyMetadata(name, keys, is_active) ==
    [name |-> name, npub |-> npub(keys), pubkey_hex |-> pubkey_hex(keys),
     is_active |-> is_active]

\* The result of a KeyManager method: Ok or the error, and the manager after.
KeyOk(km) == [ok |-> TRUE, err |-> "none", km |-> km]
KeyErr(err, km) == [ok |-> FALSE, err |-> err, km |-> km]

\* KeyManager::get_signing_keys: the cached keys, or the active key loaded
\* from the keyring and cached
get_signing_keys(km) ==
    IF km.cached_keys.is_some
    THEN [ok |-> TRUE, keys |-> km.cached_keys.v, km |-> km]
    ELSE IF ~km.active_key.is_some
    THEN [ok |-> FALSE, err |-> "NoKeysConfigured", km |-> km]
    ELSE IF km.active_key.v \notin DOMAIN km.keyring
    THEN [ok |-> FALSE, err |-> "DecryptionError", km |-> km]
    ELSE [ok |-> TRUE, keys |-> km.keyring[km.active_key.v],
          km |-> [km EXCEPT !.cached_keys = Some(km.keyring[km.active_key.v])]]

\* KeyManager::get_active_pubkey: the active key's npub from the metadata
get_active_pubkey(km) ==
    IF km.active_key.is_some /\ km.active_key.v \in DOMAIN km.keys
    THEN Some(km.keys[km.active_key.v].npub)
    ELSE None

set_active_key_keepsCache(km, name, save_ok) ==
    IF name \notin DOMAIN km.keys THEN KeyErr("KeyNotFound", km)
    ELSE LET after == [km EXCEPT
                          !.keys = [n \in DOMAIN km.keys |->
                                       [km.keys[n] EXCEPT !.is_active = (n = name)]],
                          !.active_key = Some(name)]
         IN  IF save_ok THEN KeyOk(after) ELSE KeyErr("IoError", after)

\* KeyManager::set_active_key: the flags, the name, the cache cleared, then
\* the save, whose failure leaves the manager as changed
set_active_key(km, name, save_ok) ==
    IF name \notin DOMAIN km.keys THEN KeyErr("KeyNotFound", km)
    ELSE LET after == [km EXCEPT
                          !.keys = [n \in DOMAIN km.keys |->
                                       [km.keys[n] EXCEPT !.is_active = (n = name)]],
                          !.active_key = Some(name),
                          !.cached_keys = None]
         IN  IF save_ok THEN KeyOk(after) ELSE KeyErr("IoError", after)

store_key_alwaysActivates(km, name, keys, keyring_ok, save_ok) ==
    IF ~keyring_ok THEN KeyErr("EncryptionError", km)
    ELSE LET first == DOMAIN km.keys = {}
             after == [km EXCEPT
                          !.keyring = Put(km.keyring, name, keys),
                          !.active_key = Some(name),
                          !.keys = Put(km.keys, name, KeyMetadata(name, keys, first))]
         IN  IF save_ok THEN KeyOk(after) ELSE KeyErr("IoError", after)

\* KeyManager::store_key: the key pair goes to the keyring, its metadata to the
\* map; the first key stored becomes the active one
store_key(km, name, keys, keyring_ok, save_ok) ==
    IF ~keyring_ok THEN KeyErr("EncryptionError", km)
    ELSE LET first == DOMAIN km.keys = {}
             after == [km EXCEPT
                          !.keyring = Put(km.keyring, name, keys),
                          !.active_key = IF first THEN Some(name) ELSE @,
                          !.keys = Put(km.keys, name, KeyMetadata(name, keys, first))]
         IN  IF save_ok THEN KeyOk(after) ELSE KeyErr("IoError", after)

\* KeyManager::generate_key and import_key: a name in use is refused
generate_key(km, name, keys, keyring_ok, save_ok) ==
    IF name \in DOMAIN km.keys THEN KeyErr("KeyAlreadyExists", km)
    ELSE store_key(km, name, keys, keyring_ok, save_ok)

\* KeyManager::delete_key; `next` is what keys().next() yields on the map
\* after the removal (HashMap iteration order is unspecified)
delete_key(km, name, next, keyring_ok, save_ok) ==
    IF name \notin DOMAIN km.keys THEN KeyErr("KeyNotFound", km)
    ELSE IF ~keyring_ok THEN KeyErr("DecryptionError", km)
    ELSE LET removed == [km EXCEPT !.keys = Remove(km.keys, name),
                                   !.keyring = Remove(km.keyring, name)]
             after == IF km.active_key = Some(name)
                      THEN [removed EXCEPT !.active_key = next, !.cached_keys = None]
                      ELSE removed
         IN  IF save_ok THEN KeyOk(after) ELSE KeyErr("IoError", after)

\* What keys().next() may yield on a map
keys_next(map) == IF DOMAIN map = {} THEN {None} ELSE {Some(n) : n \in DOMAIN map}

\* KeyManager::lock
lock(km) == [km EXCEPT !.cached_keys = None]

\* KeyManager::new(): no metadata, nothing cached
NewKeyManager ==
    [keys |-> EmptyMap, active_key |-> None, cached_keys |-> None, keyring |-> EmptyMap]

\* A key manager after one key was stored under `name`, nothing cached.
KeyManagerWith(name, keys) ==
    [keys |-> Put(EmptyMap, name, KeyMetadata(name, keys, TRUE)),
     active_key |-> Some(name), cached_keys |-> None,
     keyring |-> Put(EmptyMap, name, keys)]

(***************************************************************************)
(* config.rs: Config.authorized_apps                                       *)
(***************************************************************************)
\* iter().position(|a| a.app_id == app_id): the first record of that app, 0 if none
position(apps, app_id) ==
    IF \E i \in 1..Len(apps) : apps[i].app_id = app_id
    THEN CHOOSE i \in 1..Len(apps) :
            /\ apps[i].app_id = app_id
            /\ \A j \in 1..(i - 1) : apps[j].app_id # app_id
    ELSE 0

authorize_app_alwaysPush(apps, app) == Append(apps, app)

\* Config::authorize_app: "Add or update an authorized application"
authorize_app(apps, app) ==
    IF position(apps, app.app_id) # 0
    THEN [apps EXCEPT ![position(apps, app.app_id)] = app]
    ELSE Append(apps, app)

\* Config::revoke_app: retain(|a| a.app_id != app_id)
revoke_app(apps, app_id) == SelectSeq(apps, LAMBDA a : a.app_id # app_id)

\* Config::is_app_authorized
is_app_authorized(apps, app_id) == \E i \in 1..Len(apps) : apps[i].app_id = app_id

\* Config::get_authorized_app
get_authorized_app(apps, app_id) ==
    IF position(apps, app_id) # 0 THEN Some(apps[position(apps, app_id)]) ELSE None

(***************************************************************************)
(* bunker.rs: BunkerState, BunkerSigner and the listener thread            *)
(***************************************************************************)
Disconnected == [tag |-> "Disconnected"]
WaitingForConnection(connection_string) ==
    [tag |-> "WaitingForConnection", connection_string |-> connection_string]
Connected(client_pubkey, app_name) ==
    [tag |-> "Connected", client_pubkey |-> client_pubkey, app_name |-> app_name]

----------------------------------------------------------------------------
(* Connection URIs: a String is the sequence of its chars, each written as  *)
(* itself; a char outside ASCII is written by its code point, and the       *)
(* digits of a public key as one token.                                     *)

\* format!("{}", pubkey) of a public key in hex or bech32 form
text_of(pubkey) == <<pubkey[1] \o ":" \o pubkey[2]>>

\* "bunker://"
BunkerScheme == <<"b", "u", "n", "k", "e", "r", ":", "/", "/">>
\* "relay=" and "secret="
RelayParam == <<"r", "e", "l", "a", "y", "=">>
SecretParam == <<"s", "e", "c", "r", "e", "t", "=">>

\* 'a'..='z' | 'A'..='Z' | '0'..='9' | '-' | '_' | '.' | '~'
Unreserved ==
    {"a", "b", "c", "d", "e", "f", "g", "h", "i", "j", "k", "l", "m",
     "n", "o", "p", "q", "r", "s", "t", "u", "v", "w", "x", "y", "z",
     "A", "B", "C", "D", "E", "F", "G", "H", "I", "J", "K", "L", "M",
     "N", "O", "P", "Q", "R", "S", "T", "U", "V", "W", "X", "Y", "Z",
     "0", "1", "2", "3", "4", "5", "6", "7", "8", "9", "-", "_", ".", "~"}

\* c.to_string().as_bytes(): the UTF-8 bytes of the other chars the inputs use
as_bytes(c) ==
    CASE c = " " -> <<32>>
      [] c = "%" -> <<37>>
      [] c = "&" -> <<38>>
      [] c = "/" -> <<47>>
      [] c = ":" -> <<58>>
      [] c = "=" -> <<61>>
      [] c = "?" -> <<63>>
      [] c = "U+00E9" -> <<195, 169>>

HexDigits ==
    <<"0", "1", "2", "3", "4", "5", "6", "7", "8", "9", "A", "B", "C", "D", "E", "F">>

\* format!("%{:02X}", byte)
percent(byte) == <<"%", HexDigits[(byte \div 16) + 1], HexDigits[(byte % 16) + 1]>>

RECURSIVE percent_all(_)
percent_all(bytes) ==
    IF bytes = <<>> THEN <<>> ELSE percent(Head(bytes)) \o percent_all(Tail(bytes))

\* urlencoding::encode
RECURSIVE encode(_)
encode(str) ==
    IF str = <<>> THEN <<>>
    ELSE (IF Head(str) \in Unreserved THEN <<Head(str)>>
          ELSE percent_all(as_bytes(Head(str))))
         \o encode(Tail(str))

\* [String]::join(sep)
RECURSIVE join(_, _)
join(strs, sep) ==
    IF strs = <<>> THEN <<>>
    ELSE IF Len(strs) = 1 THEN strs[1]
    ELSE strs[1] \o sep \o join(Tail(strs), sep)

\* BunkerSigner::generate_bunker_uri: the URI, or KeyNotFound without an
\* active key
generate_bunker_uri(km, relay_list, shared_secret) ==
    LET pubkey == get_active_pubkey(km)
        uri == BunkerScheme \o text_of(pubkey.v)
        params == [i \in 1..Len(relay_list) |-> RelayParam \o encode(relay_list[i])]
                  \o (IF shared_secret.is_some
                      THEN <<SecretParam \o encode(shared_secret.v)>>
                      ELSE <<>>)
    IN  IF ~pubkey.is_some THEN [ok |-> FALSE, err |-> "KeyNotFound", uri |-> <<>>]
        ELSE [ok |-> TRUE, err |-> "none",
              uri |-> IF params # <<>> THEN uri \o <<"?">> \o join(params, <<"&">>)
                      ELSE uri]

\* start_listening's connection_string: format!("bunker://{}", pubkey) on
\* keys.public_key().to_hex()
connection_string(keys) == BunkerScheme \o text_of(pubkey_hex(keys))

\* The relays of BunkerSigner::new: "wss://relay.nsec.app" and
\* "wss://relay.damus.io"
DefaultRelays ==
    << <<"w", "s", "s", ":", "/", "/", "r", "e", "l", "a", "y", ".",
         "n", "s", "e", "c", ".", "a", "p", "p">>,
       <<"w", "s", "s", ":", "/", "/", "r", "e", "l", "a", "y", ".",
         "d", "a", "m", "u", "s", ".", "i", "o">> >>

\* Relay and secret values of the URI specification: the two strings of
\* test_url_encoding, one with a char outside ASCII and reserved chars, one
\* of unreserved chars only.
MaxRelays == 2
RelayTexts ==
    {<<"h", "e", "l", "l", "o", " ", "w", "o", "r", "l", "d">>,
     DefaultRelays[2],
     <<"U+00E9", "%", "?", "a", "=", "1", "&", "b">>,
     <<"a", "-", "Z", "_", "0", ".", "~">>}
SecretTexts == {<<"s", "3", "c">>, <<"p", " ", "&", "q">>}

MaxListeners == 2
ListenerIds == 1..MaxListeners
Tasks == {"task1", "task2"}
Peers == {"peerA", "peerB"}

Methods ==
    {"connect", "get_public_key", "sign_event", "nip04_encrypt", "nip04_decrypt",
     "nip44_encrypt", "nip44_decrypt", "ping"}

\* A serde_json::Value that is a string or a number: its type and its text.
JsonString(s) == <<"string", s>>
JsonNumber(n) == <<"number", n>>

\* Value::as_str().unwrap_or("")
as_str_or_empty(v) == IF v[1] = "string" THEN v[2] ELSE ""

\* as_u64().unwrap_or(1) as u16 on a kind: the cast keeps the low 16 bits
kind_as_u16(kind) == kind % (U16Max + 1)

\* Inbound NIP-46 events: who sent it, whether it carries our p tag, whether
\* its content decrypts and parses, and the request it holds.
Event(sender, for_us, decrypts, parses, method, id, params_ok, kind) ==
    [sender |-> sender, for_us |-> for_us, decrypts |-> decrypts, parses |-> parses,
     method |-> method, id |-> id, params_ok |-> params_ok, kind |-> kind]

\* Events of the lifecycle specification: connect requests, good and undecryptable.
LifecycleEvents ==
    {Event("peerA", TRUE, d, TRUE, "connect", JsonString("id1"), TRUE, 1) : d \in BOOLEAN}

\* Events of the dispatch specification: every method and an unknown one from
\* each peer; from peerA also requests with missing parameters, an event
\* without our p tag, one that does not decrypt and one that does not parse,
\* a ping whose id is a number and a sign_event whose kind does not fit u16;
\* from peerB a connect and a ping without parameters.
DispatchEvents ==
    {Event(s, TRUE, TRUE, TRUE, m, JsonString("id1"), TRUE, 1) :
        s \in Peers, m \in Methods \cup {"unknown"}}
    \cup {Event("peerA", TRUE, TRUE, TRUE, m, JsonString("id2"), FALSE, 1) :
             m \in {"sign_event", "nip04_encrypt"}}
    \cup {Event("peerA", FALSE, TRUE, TRUE, "get_public_key", JsonString("id3"), TRUE, 1),
          Event("peerA", TRUE, FALSE, TRUE, "get_public_key", JsonString("id4"), TRUE, 1),
          Event("peerA", TRUE, TRUE, FALSE, "get_public_key", JsonString("id5"), TRUE, 1)}
    \cup {Event("peerB", TRUE, TRUE, TRUE, m, JsonString("id6"), FALSE, 1) :
             m \in {"connect", "ping"}}
    \cup {Event("peerA", TRUE, TRUE, TRUE, "ping", JsonNumber("7"), TRUE, 1),
          Event("peerA", TRUE, TRUE, TRUE, "sign_event", JsonString("id8"), TRUE,
                U16Max + 2)}

\* Whether the client of a listener reaches at least one of its relays.
RelaysUp == {TRUE}
RelaysUpOrDown == BOOLEAN

\* The RequestType a NIP-46 method stands for.
MethodRequestType(method) ==
    CASE method = "get_public_key" -> "GetPublicKey"
      [] method = "sign_event" -> "SignEvent"
      [] method = "nip04_encrypt" -> "Nip04Encrypt"
      [] method = "nip04_decrypt" -> "Nip04Decrypt"
      [] method = "nip44_encrypt" -> "Nip44Encrypt"
      [] method = "nip44_decrypt" -> "Nip44Decrypt"

IdleTask ==
    [pc |-> "idle", op |-> "none", result |-> "none", keys |-> None, spawned |-> None]

\* The call has returned `result` to its caller.
Returned(op, result) == [IdleTask EXCEPT !.pc = "returned", !.op = op, !.result = result]

\* A listener thread: where it stands, the keys it was spawned with, whether
\* its client reached a relay, the notification its closure is running on, the
\* request parsed from it, the response built, the key operation performed and
\* how the closure ended; told_to_stop and observed_stop are history.
UnbornListener ==
    [pc |-> "unborn", keys |-> None, relays_connected |-> FALSE,
     notification |-> None, req |-> None, resp |-> None, key_op |-> None,
     outcome |-> "none", told_to_stop |-> FALSE, observed_stop |-> FALSE]

Alive(l) == l.pc \notin {"unborn", "exited", "setup_failed"}

\* Config.authorized_apps of the bunker specifications: peerA may read the
\* public key and sign kind 1; peerB is not in the list.
BunkerAuthorizedApps ==
    << [app_id |-> "peerA",
        permissions |-> [DefaultPermissions EXCEPT !.get_public_key = TRUE,
                                                   !.sign_event = Some(<<1>>)],
        auto_approve |-> FALSE] >>

BunkerIdle ==
    /\ state = Disconnected
    /\ stop_flag = FALSE
    /\ listener_handle = None
    /\ key_manager = NewKeyManager
    /\ authorized_apps = <<>>
    /\ tasks = [c \in Tasks |-> IdleTask]
    /\ listeners = [t \in ListenerIds |-> UnbornListener]
    /\ last_published = None

\* AppState::new: unlocked; no local call made yet
LocalIdle ==
    /\ is_locked = FALSE
    /\ dbus_reply = NoCall
    /\ config_call = NoCall

\* A code path that is not running.
IdlePath == [steps |-> <<>>, at |-> 0]
PathNames == {"start_listening", "stop", "state", "generate_bunker_uri", "request"}

\* BunkerSigner::new: the two default relays and no secret; no call made, no
\* lock held
CallIdle ==
    /\ relays = DefaultRelays
    /\ secret = None
    /\ uri_call = NoCall
    /\ sign_call = NoCall
    /\ state_lock = None
    /\ km_lock = None
    /\ paths = [p \in PathNames |-> IdlePath]

\* BunkerSigner::new(key_manager)
BunkerInit ==
    /\ state = Disconnected
    /\ stop_flag = FALSE
    /\ listener_handle = None
    /\ key_manager \in {NewKeyManager, KeyManagerWith("main", "alice")}
    /\ authorized_apps = BunkerAuthorizedApps
    /\ tasks = [c \in Tasks |-> IdleTask]
    /\ listeners = [t \in ListenerIds |-> UnbornListener]
    /\ last_published = None

----------------------------------------------------------------------------
(* BunkerSigner::start_listening *)

start_step_after_spawnFirst(pc) ==
    CASE pc = "check" -> "get_keys"
      [] pc = "get_keys" -> "reset_flag"
      [] pc = "reset_flag" -> "spawn"
      [] pc = "spawn" -> "store"
      [] pc = "store" -> "set_waiting"
      [] pc = "set_waiting" -> "idle"

\* The order of start_listening's statements.
start_step_after(pc) ==
    CASE pc = "check" -> "get_keys"
      [] pc = "get_keys" -> "set_waiting"
      [] pc = "set_waiting" -> "reset_flag"
      [] pc = "reset_flag" -> "spawn"
      [] pc = "spawn" -> "store"
      [] pc = "store" -> "idle"

already_running_never(handle) == FALSE

\* "Check if already running": listener_handle.lock().unwrap().is_some()
already_running(handle) == handle.is_some

\* .map_err(|e| SignerError::NostrError(e.to_string())) on get_signing_keys
start_error(err) ==
    CASE to_string(err) = "No keys configured" -> "NostrError(No keys configured)"
      [] to_string(err) = "Decryption error" -> "NostrError(Decryption error)"

StartAdvance(c) ==
    LET next == start_step_after(tasks[c].pc)
    IN  IF next = "idle" THEN Returned("start", "Ok") ELSE [tasks[c] EXCEPT !.pc = next]

\* A call begins. MaxListeners bounds the threads alive at once: a call that
\* would have to spawn one more does not begin.
StartCall(c, ids) ==
    /\ tasks[c].pc = "idle"
    /\ already_running(listener_handle) \/ \E t \in ids : ~Alive(listeners[t])
    /\ tasks' = [tasks EXCEPT ![c] = [IdleTask EXCEPT !.pc = "check", !.op = "start"]]
    /\ UNCHANGED <<state, stop_flag, listener_handle, key_manager, authorized_apps,
                   listeners, last_published>>
    /\ UNCHANGED <<permVars, rateVars, localVars, callVars>>

StartCheck(c) ==
    /\ tasks[c].op = "start" /\ tasks[c].pc = "check"
    /\ tasks' = [tasks EXCEPT ![c] =
                    IF already_running(listener_handle)
                    THEN Returned("start", "AlreadyRunning")
                    ELSE StartAdvance(c)]
    /\ UNCHANGED <<state, stop_flag, listener_handle, key_manager, authorized_apps,
                   listeners, last_published>>
    /\ UNCHANGED <<permVars, rateVars, localVars, callVars>>

StartGetKeys(c) ==
    /\ tasks[c].op = "start" /\ tasks[c].pc = "get_keys"
    /\ LET r == get_signing_keys(key_manager)
       IN  /\ key_manager' = r.km
           /\ tasks' = [tasks EXCEPT ![c] =
                           IF r.ok
                           THEN [StartAdvance(c) EXCEPT !.keys = Some(r.keys)]
                           ELSE Returned("start", start_error(r.err))]
    /\ UNCHANGED <<state, stop_flag, listener_handle, authorized_apps,
                   listeners, last_published>>
    /\ UNCHANGED <<permVars, rateVars, localVars, callVars>>

StartSetWaiting(c) ==
    /\ tasks[c].op = "start" /\ tasks[c].pc = "set_waiting"
    /\ state' = WaitingForConnection(connection_string(tasks[c].keys.v))
    /\ tasks' = [tasks EXCEPT ![c] = StartAdvance(c)]
    /\ UNCHANGED <<stop_flag, listener_handle, key_manager, authorized_apps,
                   listeners, last_published>>
    /\ UNCHANGED <<permVars, rateVars, localVars, callVars>>

StartResetFlag(c) ==
    /\ tasks[c].op = "start" /\ tasks[c].pc = "reset_flag"
    /\ stop_flag' = FALSE
    /\ tasks' = [tasks EXCEPT ![c] = StartAdvance(c)]
    /\ UNCHANGED <<state, listener_handle, key_manager, authorized_apps,
                   listeners, last_published>>
    /\ UNCHANGED <<permVars, rateVars, localVars, callVars>>

StartSpawn(c, ids) ==
    /\ tasks[c].op = "start" /\ tasks[c].pc = "spawn"
    /\ \E t \in ids :
         /\ ~Alive(listeners[t])
         /\ \A u \in ids : u < t => Alive(listeners[u])
         /\ listeners' = [listeners EXCEPT ![t] =
                             [UnbornListener EXCEPT !.pc = "setup",
                                                    !.keys = tasks[c].keys]]
         /\ tasks' = [tasks EXCEPT ![c] = [StartAdvance(c) EXCEPT !.spawned = Some(t)]]
    /\ UNCHANGED <<state, stop_flag, listener_handle, key_manager, authorized_apps,
                   last_published>>
    /\ UNCHANGED <<permVars, rateVars, localVars, callVars>>

StartStore(c) ==
    /\ tasks[c].op = "start" /\ tasks[c].pc = "store"
    /\ listener_handle' = tasks[c].spawned
    /\ tasks' = [tasks EXCEPT ![c] = StartAdvance(c)]
    /\ UNCHANGED <<state, stop_flag, key_manager, authorized_apps,
                   listeners, last_published>>
    /\ UNCHANGED <<permVars, rateVars, localVars, callVars>>

----------------------------------------------------------------------------
(* BunkerSigner::stop *)

StopCall(c) ==
    /\ tasks[c].pc = "idle"
    /\ tasks' = [tasks EXCEPT ![c] = [IdleTask EXCEPT !.pc = "signal", !.op = "stop"]]
    /\ UNCHANGED <<state, stop_flag, listener_handle, key_manager, authorized_apps,
                   listeners, last_published>>
    /\ UNCHANGED <<permVars, rateVars, localVars, callVars>>

StopSignal(c) ==
    /\ tasks[c].op = "stop" /\ tasks[c].pc = "signal"
    /\ stop_flag' = TRUE
    /\ listeners' = [t \in ListenerIds |->
                        IF Alive(listeners[t])
                        THEN [listeners[t] EXCEPT !.told_to_stop = TRUE]
                        ELSE listeners[t]]
    /\ tasks' = [tasks EXCEPT ![c].pc = "set_disconnected"]
    /\ UNCHANGED <<state, listener_handle, key_manager, authorized_apps,
                   last_published>>
    /\ UNCHANGED <<permVars, rateVars, localVars, callVars>>

StopSetDisconnected(c) ==
    /\ tasks[c].op = "stop" /\ tasks[c].pc = "set_disconnected"
    /\ state' = Disconnected
    /\ tasks' = [tasks EXCEPT ![c].pc = "take"]
    /\ UNCHANGED <<stop_flag, listener_handle, key_manager, authorized_apps,
                   listeners, last_published>>
    /\ UNCHANGED <<permVars, rateVars, localVars, callVars>>

\* guard.take(), then the 500 ms sleep and the drop of the handle: the thread
\* is not joined.
StopTake(c) ==
    /\ tasks[c].op = "stop" /\ tasks[c].pc = "take"
    /\ listener_handle' = None
    /\ tasks' = [tasks EXCEPT ![c] = Returned("stop", "Ok")]
    /\ UNCHANGED <<state, stop_flag, key_manager, authorized_apps,
                   listeners, last_published>>
    /\ UNCHANGED <<permVars, rateVars, localVars, callVars>>

\* The caller takes the result; the task may call again.
TaskReturn(c) ==
    /\ tasks[c].pc = "returned"
    /\ tasks' = [tasks EXCEPT ![c] = IdleTask]
    /\ UNCHANGED <<state, stop_flag, listener_handle, key_manager, authorized_apps,
                   listeners, last_published>>
    /\ UNCHANGED <<permVars, rateVars, localVars, callVars>>

----------------------------------------------------------------------------
(* run_bunker_listener and handle_nip46_request, on the listener thread *)

Failed(km) == [ok |-> FALSE, result |-> "none", key_op |-> None, km |-> km]
KeyOp(req, rt, identity) ==
    Some([peer |-> req.sender, op |-> rt, kind |-> kind_as_u16(req.kind),
          identity |-> identity])

handle_connect_checksParams(req, km) ==
    IF req.params_ok
    THEN [ok |-> TRUE, result |-> JsonString("ack"), key_op |-> None, km |-> km]
    ELSE Failed(km)

\* The arm "connect": the first parameter is logged, the answer is "ack"
handle_connect(req, km) == [ok |-> TRUE, result |-> JsonString("ack"), key_op |-> None, km |-> km]

handle_ping_needsKey(req, km) ==
    IF get_signing_keys(km).ok
    THEN [ok |-> TRUE, result |-> JsonString("pong"), key_op |-> None, km |-> km]
    ELSE Failed(km)

\* The arm "ping"
handle_ping(req, km) == [ok |-> TRUE, result |-> JsonString("pong"), key_op |-> None, km |-> km]

\* handle_nip46_request, the match on the method (bunker.rs 377-485): the
\* result value or the error, the key operation performed, the key manager after
handle_method(req, keys, km) ==
    CASE req.method = "connect" -> handle_connect(req, km)
      [] req.method = "get_public_key" ->
            LET pubkey == get_active_pubkey(km)
            IN  IF pubkey.is_some
                THEN [ok |-> TRUE, result |-> pubkey.v,
                      key_op |-> KeyOp(req, "GetPublicKey", pubkey.v[2]), km |-> km]
                ELSE Failed(km)
      [] req.method = "sign_event" ->
            IF ~req.params_ok THEN Failed(km)
            ELSE LET r == get_signing_keys(km)
                 IN  IF r.ok
                     THEN [ok |-> TRUE,
                           result |-> <<"signed", r.keys, kind_as_u16(req.kind)>>,
                           key_op |-> KeyOp(req, "SignEvent", r.keys), km |-> r.km]
                     ELSE Failed(km)
      [] req.method \in {"nip04_encrypt", "nip04_decrypt", "nip44_encrypt", "nip44_decrypt"} ->
            IF ~req.params_ok THEN Failed(km)
            ELSE [ok |-> TRUE, result |-> <<req.method, keys>>,
                  key_op |-> KeyOp(req, MethodRequestType(req.method), keys), km |-> km]
      [] req.method = "ping" -> handle_ping(req, km)
      [] OTHER -> Failed(km)

Response_toOwnKey(req, result, keys) ==
    [id |-> JsonString(as_str_or_empty(req.id)), result |-> result,
     to |-> keys, tag |-> req.sender, signed_by |-> keys]

\* The response event: {id, result} with the id read from the request,
\* encrypted to the sender of the event, tagged with it and signed with the
\* listener's keys (bunker.rs 361-362, 487-503).
Response(req, result, keys) ==
    [id |-> JsonString(as_str_or_empty(req.id)), result |-> result,
     to |-> req.sender, tag |-> req.sender, signed_by |-> keys]

\* The loop is left: client.disconnect(), and the thread ends.
Exit(l) ==
    [l EXCEPT !.pc = "exited", !.relays_connected = FALSE, !.notification = None,
              !.req = None, !.resp = None, !.key_op = None, !.outcome = "none"]

addressed_to_us_always(e) == TRUE

\* "Check if this is for us": p_tags.contains(&&our_pubkey)
addressed_to_us(e) == e.for_us

decrypt_and_parse_always(e) == TRUE

\* nip04::decrypt of the content, then serde_json::from_str, both with `?`
decrypt_and_parse(e) == e.decrypts /\ e.parses

connected_state_named(sender_pubkey) == Connected(pubkey_hex(sender_pubkey), Some("app"))

\* BunkerState::Connected { client_pubkey: sender_pubkey.to_hex(), app_name: None }
connected_state(sender_pubkey) == Connected(pubkey_hex(sender_pubkey), None)

closure_returns_fatal(l, outcome) ==
    IF outcome \in {"handler_error", "send_failed"}
    THEN Exit(l)
    ELSE [l EXCEPT !.pc = "closure_done", !.outcome = outcome]

\* The notification closure reaches its last line, "Ok(false) // Continue
\* listening", whatever happened to the event: it was not for us ("ignored"),
\* handle_nip46_request returned Err ("handler_error", logged), the response
\* was sent ("sent") or send_event failed ("send_failed", logged).
closure_returns(l, outcome) == [l EXCEPT !.pc = "closure_done", !.outcome = outcome]

\* Client creation, add_relay, connect and subscribe succeed; add_relay and
\* connect report no failure to the caller, so the loop is entered whether or
\* not a relay was reached.
ListenerSetup(t, links) ==
    /\ listeners[t].pc = "setup"
    /\ \E up \in links :
         listeners' = [listeners EXCEPT ![t].pc = "loop_top",
                                        ![t].relays_connected = up]
    /\ UNCHANGED <<state, stop_flag, listener_handle, key_manager, authorized_apps,
                   tasks, last_published>>
    /\ UNCHANGED <<permVars, rateVars, localVars, callVars>>

\* The runtime cannot be created, or subscribe fails: the thread ends without
\* entering the loop and without client.disconnect().
ListenerSetupFails(t) ==
    /\ listeners[t].pc = "setup"
    /\ listeners' = [listeners EXCEPT ![t].pc = "setup_failed"]
    /\ UNCHANGED <<state, stop_flag, listener_handle, key_manager, authorized_apps,
                   tasks, last_published>>
    /\ UNCHANGED <<permVars, rateVars, localVars, callVars>>

\* "Check stop flag first" at the top of the loop.
ListenerLoopTop(t) ==
    /\ listeners[t].pc = "loop_top"
    /\ listeners' = [listeners EXCEPT ![t] =
                        IF stop_flag THEN Exit([@ EXCEPT !.observed_stop = TRUE])
                        ELSE [@ EXCEPT !.pc = "notifications"]]
    /\ UNCHANGED <<state, stop_flag, listener_handle, key_manager, authorized_apps,
                   tasks, last_published>>
    /\ UNCHANGED <<permVars, rateVars, localVars, callVars>>

\* The notification closure runs on event e, delivered by a connected relay:
\* the stop flag ("return Ok(true) // Signal to stop"), the kind and p tag,
\* then handle_nip46_request up to its first await (decrypt, parse).
ListenerReceive(t, e) ==
    /\ listeners[t].pc = "notifications"
    /\ listeners[t].relays_connected
    /\ listeners' = [listeners EXCEPT ![t] =
                        IF stop_flag
                        THEN [@ EXCEPT !.pc = "after_notifications",
                                       !.observed_stop = TRUE]
                        ELSE IF ~addressed_to_us(e)
                        THEN closure_returns([@ EXCEPT !.notification = Some(e)],
                                             "ignored")
                        ELSE IF ~decrypt_and_parse(e)
                        THEN closure_returns([@ EXCEPT !.notification = Some(e)],
                                             "handler_error")
                        ELSE [@ EXCEPT !.pc = "set_state", !.notification = Some(e),
                                       !.req = Some(e)]]
    /\ UNCHANGED <<state, stop_flag, listener_handle, key_manager, authorized_apps,
                   tasks, last_published>>
    /\ UNCHANGED <<permVars, rateVars, localVars, callVars>>

\* The 2 s timeout around handle_notifications elapses: the future is dropped
\* where it waits (for a notification, a lock, or the relay).
ListenerTimeout(t) ==
    /\ listeners[t].pc \in {"notifications", "set_state", "dispatch", "send"}
    /\ listeners[t].pc = "dispatch" =>
           listeners[t].req.v.method \in {"get_public_key", "sign_event"}
    /\ listeners' = [listeners EXCEPT ![t] =
                        [@ EXCEPT !.pc = "after_notifications", !.notification = None,
                                  !.req = None, !.resp = None, !.key_op = None]]
    /\ UNCHANGED <<state, stop_flag, listener_handle, key_manager, authorized_apps,
                   tasks, last_published>>
    /\ UNCHANGED <<permVars, rateVars, localVars, callVars>>

\* "Update state to show connected client"
ListenerSetState(t) ==
    /\ listeners[t].pc = "set_state"
    /\ state' = connected_state(listeners[t].req.v.sender)
    /\ listeners' = [listeners EXCEPT ![t].pc = "dispatch"]
    /\ UNCHANGED <<stop_flag, listener_handle, key_manager, authorized_apps,
                   tasks, last_published>>
    /\ UNCHANGED <<permVars, rateVars, localVars, callVars>>

\* The match on the method and the response built from its result; an Err
\* comes back to the closure, which logs it.
ListenerDispatch(t) ==
    /\ listeners[t].pc = "dispatch"
    /\ LET req == listeners[t].req.v
           r == handle_method(req, listeners[t].keys.v, key_manager)
       IN  /\ key_manager' = r.km
           /\ listeners' = [listeners EXCEPT ![t] =
                               IF r.ok
                               THEN [@ EXCEPT !.pc = "send",
                                              !.key_op = r.key_op,
                                              !.resp = Some(Response(req, r.result,
                                                                     listeners[t].keys.v))]
                               ELSE closure_returns(@, "handler_error")]
    /\ UNCHANGED <<state, stop_flag, listener_handle, authorized_apps,
                   tasks, last_published>>
    /\ UNCHANGED <<permVars, rateVars, localVars, callVars>>

\* client_send.send_event(&response) succeeds, or fails and is logged
ListenerSend(t) ==
    /\ listeners[t].pc = "send"
    /\ \E sent \in BOOLEAN :
         /\ last_published' = IF sent THEN listeners[t].resp ELSE last_published
         /\ listeners' = [listeners EXCEPT ![t] =
                             closure_returns(@, IF sent THEN "sent" ELSE "send_failed")]
    /\ UNCHANGED <<state, stop_flag, listener_handle, key_manager, authorized_apps,
                   tasks>>
    /\ UNCHANGED <<permVars, rateVars, localVars, callVars>>

\* The closure has returned Ok(false): handle_notifications waits for the next
\* notification.
ListenerClosureDone(t) ==
    /\ listeners[t].pc = "closure_done"
    /\ listeners' = [listeners EXCEPT ![t] =
                        [@ EXCEPT !.pc = "notifications", !.notification = None,
                                  !.req = None, !.resp = None, !.key_op = None,
                                  !.outcome = "none"]]
    /\ UNCHANGED <<state, stop_flag, listener_handle, key_manager, authorized_apps,
                   tasks, last_published>>
    /\ UNCHANGED <<permVars, rateVars, localVars, callVars>>

\* "Check if we should exit" after handle_notifications returned
ListenerAfterNotifications(t) ==
    /\ listeners[t].pc = "after_notifications"
    /\ listeners' = [listeners EXCEPT ![t] =
                        IF stop_flag THEN Exit([@ EXCEPT !.observed_stop = TRUE])
                        ELSE [@ EXCEPT !.pc = "loop_top"]]
    /\ UNCHANGED <<state, stop_flag, listener_handle, key_manager, authorized_apps,
                   tasks, last_published>>
    /\ UNCHANGED <<permVars, rateVars, localVars, callVars>>

ListenerInternal(t, links) ==
    \/ ListenerSetup(t, links)
    \/ ListenerLoopTop(t)
    \/ ListenerTimeout(t)
    \/ ListenerSetState(t)
    \/ ListenerDispatch(t)
    \/ ListenerSend(t)
    \/ ListenerClosureDone(t)
    \/ ListenerAfterNotifications(t)

TaskContinues(c, ids) ==
    \/ StartCheck(c)
    \/ StartGetKeys(c)
    \/ StartSetWaiting(c)
    \/ StartResetFlag(c)
    \/ StartSpawn(c, ids)
    \/ StartStore(c)
    \/ StopSignal(c)
    \/ StopSetDisconnected(c)
    \/ StopTake(c)
    \/ TaskReturn(c)

BunkerNext(callers, ids, events, links) ==
    \/ \E c \in callers : StartCall(c, ids) \/ StopCall(c) \/ TaskContinues(c, ids)
    \/ \E t \in ListenerIds : ListenerInternal(t, links) \/ ListenerSetupFails(t)
    \/ \E t \in ListenerIds, e \in events : ListenerReceive(t, e)

----------------------------------------------------------------------------
(* Calls on the KeyManager by whoever holds it *)

GenerateKey(names, secrets) ==
    /\ \E name \in names, keys \in secrets, keyring_ok, save_ok \in BOOLEAN :
         key_manager' = generate_key(key_manager, name, keys, keyring_ok, save_ok).km
    /\ UNCHANGED <<state, stop_flag, listener_handle, authorized_apps,
                   tasks, listeners, last_published>>
    /\ UNCHANGED <<permVars, rateVars, localVars, callVars>>

SetActiveKey(names) ==
    /\ \E name \in names, save_ok \in BOOLEAN :
         key_manager' = set_active_key(key_manager, name, save_ok).km
    /\ UNCHANGED <<state, stop_flag, listener_handle, authorized_apps,
                   tasks, listeners, last_published>>
    /\ UNCHANGED <<permVars, rateVars, localVars, callVars>>

DeleteKey(names) ==
    /\ \E name \in names, keyring_ok, save_ok \in BOOLEAN :
         \E next \in keys_next(Remove(key_manager.keys, name)) :
            key_manager' = delete_key(key_manager, name, next, keyring_ok, save_ok).km
    /\ UNCHANGED <<state, stop_flag, listener_handle, authorized_apps,
                   tasks, listeners, last_published>>
    /\ UNCHANGED <<permVars, rateVars, localVars, callVars>>

Lock ==
    /\ key_manager' = lock(key_manager)
    /\ UNCHANGED <<state, stop_flag, listener_handle, authorized_apps,
                   tasks, listeners, last_published>>
    /\ UNCHANGED <<permVars, rateVars, localVars, callVars>>

GetSigningKeys ==
    /\ key_manager' = get_signing_keys(key_manager).km
    /\ UNCHANGED <<state, stop_flag, listener_handle, authorized_apps,
                   tasks, listeners, last_published>>
    /\ UNCHANGED <<permVars, rateVars, localVars, callVars>>

KeyNext(names, secrets) ==
    \/ GenerateKey(names, secrets)
    \/ SetActiveKey(names)
    \/ DeleteKey(names)
    \/ Lock
    \/ GetSigningKeys

----------------------------------------------------------------------------
(* Calls on the Config's authorization list *)

MaxApps == 3
ConfigAppIds == {"app1", "app2", "app3"}

\* The AuthorizedApp records of the configuration specification.
AuthorizedApps ==
    [app_id : ConfigAppIds,
     permissions : {DefaultPermissions,
                    [DefaultPermissions EXCEPT !.get_public_key = TRUE]},
     auto_approve : BOOLEAN]

AuthorizeApp ==
    /\ \E app \in AuthorizedApps :
         /\ Len(authorized_apps) < MaxApps \/ is_app_authorized(authorized_apps, app.app_id)
         /\ authorized_apps' = authorize_app(authorized_apps, app)
         /\ config_call' = [made |-> TRUE, op |-> "authorize_app", app_id |-> app.app_id,
                            app |-> Some(app), before |-> authorized_apps]
    /\ UNCHANGED <<state, stop_flag, listener_handle, key_manager,
                   tasks, listeners, last_published>>
    /\ UNCHANGED <<permVars, rateVars, is_locked, dbus_reply, callVars>>

RevokeApp ==
    /\ \E app_id \in ConfigAppIds :
         /\ authorized_apps' = revoke_app(authorized_apps, app_id)
         /\ config_call' = [made |-> TRUE, op |-> "revoke_app", app_id |-> app_id,
                            app |-> None, before |-> authorized_apps]
    /\ UNCHANGED <<state, stop_flag, listener_handle, key_manager,
                   tasks, listeners, last_published>>
    /\ UNCHANGED <<permVars, rateVars, is_locked, dbus_reply, callVars>>

----------------------------------------------------------------------------
(* BunkerSigner::generate_bunker_uri on a signer built with with_relays and *)
(* with_secret                                                              *)

GenerateBunkerUri ==
    /\ ~uri_call.made
    /\ uri_call' = [made |-> TRUE,
                    result |-> generate_bunker_uri(key_manager, relays, secret)]
    /\ UNCHANGED <<relays, secret, sign_call, state_lock, km_lock, paths>>
    /\ UNCHANGED <<permVars, rateVars, bunkerVars, localVars>>

\* BunkerSigner::new(key_manager).with_relays(..).with_secret(..)
UriInit ==
    /\ relays \in SeqsUpTo(RelayTexts, MaxRelays)
    /\ secret \in {None} \cup {Some(t) : t \in SecretTexts}
    /\ uri_call = NoCall
    /\ sign_call = NoCall
    /\ state_lock = None
    /\ km_lock = None
    /\ paths = [p \in PathNames |-> IdlePath]
    /\ state = Disconnected
    /\ stop_flag = FALSE
    /\ listener_handle = None
    /\ key_manager \in {NewKeyManager, KeyManagerWith("main", "alice"),
                        KeyManagerWith("alt", "bob")}
    /\ authorized_apps = <<>>
    /\ tasks = [c \in Tasks |-> IdleTask]
    /\ listeners = [t \in ListenerIds |-> UnbornListener]
    /\ last_published = None

----------------------------------------------------------------------------
(* The two tokio mutexes of the bunker signer, state and key_manager, and   *)
(* the code paths that take them: what each path locks, does under the      *)
(* lock and unlocks, in the order of its statements. A guard is dropped at  *)
(* the end of its block, at drop(), or when the future is dropped.          *)

LockStep(l) == [op |-> "lock", arg |-> l]
UnlockStep(l) == [op |-> "unlock", arg |-> l]
Work(w) == [op |-> "work", arg |-> w]

\* The work that is a cryptographic operation or waits for the keyring.
CryptoWork == {"keyring", "decrypt", "encrypt", "sign"}

\* start_listening, lines 113-127
start_listening_steps ==
    <<LockStep("key_manager"), Work("keyring"), Work("clone_keys"),
      UnlockStep("key_manager"),
      LockStep("state"), Work("write_state"), UnlockStep("state")>>

\* stop, lines 178-182
stop_steps == <<LockStep("state"), Work("write_state"), UnlockStep("state")>>

\* state(), line 70
state_steps == <<LockStep("state"), Work("clone_state"), UnlockStep("state")>>

\* generate_bunker_uri, lines 75-96: km lives to the end of the function
generate_bunker_uri_steps ==
    <<LockStep("key_manager"), Work("read_pubkey"), Work("format_uri"),
      UnlockStep("key_manager")>>

\* handle_nip46_request, the arm of each method (lines 377-485)
method_steps(method) ==
    CASE method \in {"connect", "ping"} -> <<>>
      [] method = "get_public_key" ->
            <<LockStep("key_manager"), Work("read_pubkey"), UnlockStep("key_manager")>>
      [] method = "sign_event" ->
            <<Work("parse_event"), LockStep("key_manager"), Work("keyring"),
              Work("sign"), UnlockStep("key_manager")>>
      [] method \in {"nip04_encrypt", "nip44_encrypt"} -> <<Work("encrypt")>>
      [] method \in {"nip04_decrypt", "nip44_decrypt"} -> <<Work("decrypt")>>

handle_nip46_request_steps_guardKept(method) ==
    <<Work("decrypt"), Work("parse_request"),
      LockStep("state"), Work("write_state")>>
    \o method_steps(method)
    \o <<Work("encrypt"), Work("sign"), UnlockStep("state")>>

\* handle_nip46_request: decrypt and parse (353-363), the state written in a
\* block of its own (367-374), the method's arm, the response encrypted and
\* signed (493-501)
handle_nip46_request_steps(method) ==
    <<Work("decrypt"), Work("parse_request"),
      LockStep("state"), Work("write_state"), UnlockStep("state")>>
    \o method_steps(method)
    \o <<Work("encrypt"), Work("sign")>>

\* The steps of a path; the request path handles a request of some method.
steps_of(p) ==
    CASE p = "start_listening" -> {start_listening_steps}
      [] p = "stop" -> {stop_steps}
      [] p = "state" -> {state_steps}
      [] p = "generate_bunker_uri" -> {generate_bunker_uri_steps}
      [] p = "request" -> {handle_nip46_request_steps(m) : m \in Methods}

Running(p) == paths[p].at # 0
Current(p) == paths[p].steps[paths[p].at]
Holder(l) == IF l = "state" THEN state_lock ELSE km_lock

\* The path moves past its current step, and is over after the last one.
Advance(p) ==
    IF paths[p].at = Len(paths[p].steps) THEN [paths EXCEPT ![p] = IdlePath]
    ELSE [paths EXCEPT ![p].at = @ + 1]

\* The path is called (the listener receives a request).
PathBegin(p) ==
    /\ ~Running(p)
    /\ \E steps \in steps_of(p) : paths' = [paths EXCEPT ![p] = [steps |-> steps, at |-> 1]]
    /\ UNCHANGED <<state_lock, km_lock, relays, secret, uri_call, sign_call>>
    /\ UNCHANGED <<permVars, rateVars, bunkerVars, localVars>>

\* mutex.lock().await returns once the mutex is free
PathLock(p) ==
    /\ Running(p) /\ Current(p).op = "lock"
    /\ ~Holder(Current(p).arg).is_some
    /\ state_lock' = IF Current(p).arg = "state" THEN Some(p) ELSE state_lock
    /\ km_lock' = IF Current(p).arg = "key_manager" THEN Some(p) ELSE km_lock
    /\ paths' = Advance(p)
    /\ UNCHANGED <<relays, secret, uri_call, sign_call>>
    /\ UNCHANGED <<permVars, rateVars, bunkerVars, localVars>>

\* The guard is dropped.
PathUnlock(p) ==
    /\ Running(p) /\ Current(p).op = "unlock"
    /\ state_lock' = IF Current(p).arg = "state" THEN None ELSE state_lock
    /\ km_lock' = IF Current(p).arg = "key_manager" THEN None ELSE km_lock
    /\ paths' = Advance(p)
    /\ UNCHANGED <<relays, secret, uri_call, sign_call>>
    /\ UNCHANGED <<permVars, rateVars, bunkerVars, localVars>>

PathWork(p) ==
    /\ Running(p) /\ Current(p).op = "work"
    /\ paths' = Advance(p)
    /\ UNCHANGED <<state_lock, km_lock, relays, secret, uri_call, sign_call>>
    /\ UNCHANGED <<permVars, rateVars, bunkerVars, localVars>>

\* The 2 s timeout drops the request's future where it waits: its guards are
\* dropped with it.
PathTimeout ==
    /\ Running("request")
    /\ state_lock' = IF state_lock = Some("request") THEN None ELSE state_lock
    /\ km_lock' = IF km_lock = Some("request") THEN None ELSE km_lock
    /\ paths' = [paths EXCEPT !["request"] = IdlePath]
    /\ UNCHANGED <<relays, secret, uri_call, sign_call>>
    /\ UNCHANGED <<permVars, rateVars, bunkerVars, localVars>>

LocksNext ==
    \/ \E p \in PathNames : PathBegin(p)
    \/ \E p \in PathNames : PathLock(p)
    \/ \E p \in PathNames : PathUnlock(p)
    \/ \E p \in PathNames : PathWork(p)
    \/ PathTimeout

----------------------------------------------------------------------------
(* signing.rs and dbus.rs: the SigningEngine behind the D-Bus interface *)

DbusMethods ==
    {"get_public_key", "sign_event", "nip04_encrypt", "nip04_decrypt",
     "nip44_encrypt", "nip44_decrypt", "decrypt_zap_event"}

\* The RequestType a D-Bus method stands for.
DbusRequestType(method) ==
    IF method = "decrypt_zap_event" THEN "DecryptZapEvent" ELSE MethodRequestType(method)

\* The kinds a caller may write into an event: one that fits u16, one that does not.
RequestKinds == {1, U16Max + 2}

\* serde_json::from_str::<UnsignedEventData>: the event has a content and a
\* kind that fits u16
parses_as_event_data(params_ok, kind) == params_ok /\ kind \in 0..U16Max

EngineErr(err, km) == [ok |-> FALSE, err |-> err, result |-> "none", key_op |-> None, km |-> km]
EngineOk(result, key_op, km) ==
    [ok |-> TRUE, err |-> "none", result |-> result, key_op |-> key_op, km |-> km]
EngineOp(app_id, rt, kind, keys) ==
    Some([peer |-> app_id, op |-> rt, kind |-> kind, identity |-> keys])

\* The SigningEngine method a D-Bus method calls, with the parsing the D-Bus
\* method does before it: what is returned, the key operation performed, the
\* key manager after
signing_engine(method, app_id, params_ok, kind, km) ==
    LET r == get_signing_keys(km)
        rt == DbusRequestType(method)
    IN  CASE method = "get_public_key" ->
                IF r.ok
                THEN EngineOk(<<npub(r.keys), pubkey_hex(r.keys)>>,
                              EngineOp(app_id, rt, kind, r.keys), r.km)
                ELSE EngineErr(r.err, r.km)
          [] method = "sign_event" ->
                IF ~parses_as_event_data(params_ok, kind) THEN EngineErr("Invalid event", km)
                ELSE IF ~r.ok THEN EngineErr(r.err, r.km)
                ELSE EngineOk(<<"signed", r.keys, kind>>,
                              EngineOp(app_id, rt, kind, r.keys), r.km)
          [] method = "decrypt_zap_event" ->
                IF ~params_ok THEN EngineErr("InvalidRequest", km)
                ELSE IF ~r.ok THEN EngineErr(r.err, r.km)
                ELSE EngineOk(<<method, r.keys>>, EngineOp(app_id, rt, kind, r.keys), r.km)
          [] OTHER ->
                IF ~r.ok THEN EngineErr(r.err, r.km)
                ELSE IF ~params_ok THEN EngineErr("InvalidRequest", r.km)
                ELSE EngineOk(<<method, r.keys>>, EngineOp(app_id, rt, kind, r.keys), r.km)

\* SignerInterface::check_ready
check_ready(locked) == ~locked

\* DbusResponse::success and DbusResponse::error, with the call they answer
DbusResponse(method, app_id, r) ==
    [made |-> TRUE, method |-> method, app_id |-> app_id,
     success |-> r.ok, id |-> "req_id",
     result |-> IF r.ok THEN Some(r.result) ELSE None,
     error |-> IF r.ok THEN None ELSE Some(r.err),
     key_op |-> r.key_op]

DbusApps == {"app1", "app2"}

\* The authorization list of the D-Bus specification: app1 may read the
\* public key and sign kind 1; app2 is not in the list.
DbusAuthorizedApps ==
    << [app_id |-> "app1",
        permissions |-> [DefaultPermissions EXCEPT !.get_public_key = TRUE,
                                                   !.sign_event = Some(<<1>>)],
        auto_approve |-> FALSE] >>

\* A method of the D-Bus interface is called; get_public_key takes no app_id.
DbusCall ==
    /\ \E method \in DbusMethods, caller \in DbusApps, params_ok \in BOOLEAN,
          kind \in RequestKinds :
         LET app_id == IF method = "get_public_key" THEN None ELSE Some(caller)
             r == IF check_ready(is_locked)
                  THEN signing_engine(method, caller, params_ok, kind, key_manager)
                  ELSE EngineErr("Signer is locked", key_manager)
         IN  /\ key_manager' = r.km
             /\ dbus_reply' = DbusResponse(method, app_id, r)
    /\ UNCHANGED <<state, stop_flag, listener_handle, authorized_apps,
                   tasks, listeners, last_published>>
    /\ UNCHANGED <<permVars, rateVars, is_locked, config_call, callVars>>

\* The service after main() has built it: the Config loaded, the D-Bus key
\* manager loaded with the stored metadata, AppState unlocked.
DbusInit ==
    /\ is_locked = FALSE
    /\ dbus_reply = NoCall
    /\ config_call = NoCall
    /\ key_manager \in {NewKeyManager, KeyManagerWith("main", "alice"),
                        [KeyManagerWith("main", "alice") EXCEPT !.keyring = EmptyMap]}
    /\ authorized_apps \in {<<>>, DbusAuthorizedApps}
    /\ state = Disconnected
    /\ stop_flag = FALSE
    /\ listener_handle = None
    /\ tasks = [c \in Tasks |-> IdleTask]
    /\ listeners = [t \in ListenerIds |-> UnbornListener]
    /\ last_published = None

----------------------------------------------------------------------------
(* sign_event on the two paths: the bunker's arm (bunker.rs 392-415) and    *)
(* the D-Bus method with SigningEngine::sign_event (dbus.rs 129-145,        *)
(* signing.rs 116-146), on the same unsigned event                          *)

\* The event a caller asks to have signed, and the event signed.
UnsignedEvent(kind, content, tags, created_at) ==
    [kind |-> kind, content |-> content, tags |-> tags, created_at |-> created_at]
SignedEvent(kind, content, tags, created_at, keys) ==
    [kind |-> kind, content |-> content, tags |-> tags, created_at |-> created_at,
     pubkey |-> pubkey_hex(keys), sig |-> keys]

\* Option::unwrap_or_else(Timestamp::now)
unwrap_or_now(created_at, timestamp_now) ==
    IF created_at.is_some THEN created_at.v ELSE timestamp_now

\* The bunker's arm: kind, content and created_at are read from the JSON
\* value, the builder gets no tag
bunker_sign_event(event_data, km, timestamp_now) ==
    LET r == get_signing_keys(km)
    IN  IF ~r.ok THEN [ok |-> FALSE, err |-> "NostrError", km |-> r.km]
        ELSE [ok |-> TRUE, err |-> "none", km |-> r.km,
              event |-> SignedEvent(kind_as_u16(event_data.kind), event_data.content,
                                    <<>>,
                                    unwrap_or_now(event_data.created_at, timestamp_now),
                                    r.keys)]

\* The D-Bus method: the JSON is read as UnsignedEventData (kind: u16), then
\* SigningEngine::sign_event adds every tag that is not empty
local_sign_event(event_data, km, timestamp_now) ==
    LET r == get_signing_keys(km)
    IN  IF ~parses_as_event_data(TRUE, event_data.kind)
        THEN [ok |-> FALSE, err |-> "Invalid event", km |-> km]
        ELSE IF ~r.ok THEN [ok |-> FALSE, err |-> r.err, km |-> r.km]
        ELSE [ok |-> TRUE, err |-> "none", km |-> r.km,
              event |-> SignedEvent(event_data.kind, event_data.content,
                                    SelectSeq(event_data.tags, LAMBDA tag : tag # <<>>),
                                    unwrap_or_now(event_data.created_at, timestamp_now),
                                    r.keys)]

\* The unsigned events of the signing specification: a kind at each end of
\* u16, an empty and a non-empty content, up to MaxTags tags (an "e" tag, a
\* "p" tag, an empty one), created_at given or not.
MaxTags == 2
SignKinds == {1, U16Max}
SignTags == {<<"e", "abc">>, <<"p", "def">>, <<>>}
Timestamps == {1800, 1801}
UnsignedEvents ==
    {UnsignedEvent(k, c, t, a) :
        k \in SignKinds, c \in {"", "hello"}, t \in SeqsUpTo(SignTags, MaxTags),
        a \in {None, Some(1700)}}

BunkerSignEvent ==
    /\ ~sign_call.bunker.is_some
    /\ \E ts \in Timestamps :
         LET r == bunker_sign_event(sign_call.event_data, key_manager, ts)
         IN  /\ sign_call' = [sign_call EXCEPT !.bunker = Some([ok |-> r.ok, err |-> r.err,
                                 event |-> IF r.ok THEN Some(r.event) ELSE None])]
             /\ key_manager' = r.km
    /\ UNCHANGED <<relays, secret, uri_call, state_lock, km_lock, paths>>
    /\ UNCHANGED <<state, stop_flag, listener_handle, authorized_apps,
                   tasks, listeners, last_published>>
    /\ UNCHANGED <<permVars, rateVars, localVars>>

LocalSignEvent ==
    /\ ~sign_call.local.is_some
    /\ \E ts \in Timestamps :
         LET r == local_sign_event(sign_call.event_data, key_manager, ts)
         IN  /\ sign_call' = [sign_call EXCEPT !.local = Some([ok |-> r.ok, err |-> r.err,
                                 event |-> IF r.ok THEN Some(r.event) ELSE None])]
             /\ key_manager' = r.km
    /\ UNCHANGED <<relays, secret, uri_call, state_lock, km_lock, paths>>
    /\ UNCHANGED <<state, stop_flag, listener_handle, authorized_apps,
                   tasks, listeners, last_published>>
    /\ UNCHANGED <<permVars, rateVars, localVars>>

SignInit ==
    /\ sign_call \in {[made |-> TRUE, event_data |-> e, bunker |-> None, local |-> None] :
                        e \in UnsignedEvents}
    /\ relays = DefaultRelays
    /\ secret = None
    /\ uri_call = NoCall
    /\ state_lock = None
    /\ km_lock = None
    /\ paths = [p \in PathNames |-> IdlePath]
    /\ state = Disconnected
    /\ stop_flag = FALSE
    /\ listener_handle = None
    /\ key_manager = KeyManagerWith("main", "alice")
    /\ authorized_apps = <<>>
    /\ tasks = [c \in Tasks |-> IdleTask]
    /\ listeners = [t \in ListenerIds |-> UnbornListener]
    /\ last_published = None

(***************************************************************************)
(* Claims about the permission check                                       *)
(***************************************************************************)
\* The boolean capability of an operation other than SignEvent.
Capability(perms, rt) ==
    CASE rt = "GetPublicKey" -> perms.get_public_key
      [] rt = "Nip04Encrypt" -> perms.nip04_encrypt
      [] rt = "Nip04Decrypt" -> perms.nip04_decrypt
      [] rt = "Nip44Encrypt" -> perms.nip44_encrypt
      [] rt = "Nip44Decrypt" -> perms.nip44_decrypt
      [] rt = "DecryptZapEvent" -> perms.decrypt_zap_event

ReferencePolicy(perms, rt, ek) ==
    IF rt = "SignEvent"
    THEN \/ ~perms.sign_event.is_some
         \/ /\ perms.sign_event.is_some
            /\ perms.sign_event.v # <<>>
            /\ ek.is_some
            /\ ek.v \in {perms.sign_event.v[i] : i \in 1..Len(perms.sign_event.v)}
    ELSE Capability(perms, rt)

\* C2: check_permission returns what the reference policy says, for every
\* permission record, operation and optional kind: SignEvent is allowed iff
\* the allowlist is absent, or present, non-empty and holding the given kind;
\* any other operation iff its own capability is set.
C2_CheckEqualsPolicy ==
    perm_result.is_some =>
        perm_result.v = ReferencePolicy(permissions, request_type, event_kind)

C2_Witness ==
    /\ perm_result = Some(TRUE)
    /\ request_type = "SignEvent"
    /\ permissions.sign_event = Some(<<1, 4>>)
    /\ event_kind = Some(1)

(***************************************************************************)
(* Claims about the rate limiter                                           *)
(***************************************************************************)
InWindow(vec, instant) == SelectSeq(vec, LAMBDA t : t > instant - WindowSecs)
Entry(reqs, app_id, rt) == GetOr(GetOr(reqs, app_id, EmptyMap), rt, <<>>)

\* C3: per (app, operation) pair, a call is allowed and recorded exactly when
\* fewer than N calls of that same pair were recorded in the 60 seconds
\* ending at it, the ledger entry of a pair never holds more than N
\* timestamps inside the window, and other pairs' calls do not count.
C3_FirstNAllowed ==
    /\ \A a \in Apps, rt \in RateTypes :
          Len(InWindow(Entry(requests, a, rt), now)) <= max_per_minute
    /\ last_call.made =>
          /\ last_call.ok <=> (last_call.seen < max_per_minute)
          /\ last_call.ok =>
                LET e == Entry(requests, last_call.app_id, last_call.rt)
                IN  e # <<>> /\ e[Len(e)] = last_call.at

C3_Witness ==
    /\ max_per_minute = MaxCeiling
    /\ last_call.made /\ last_call.ok
    /\ last_call.seen = max_per_minute - 1
    /\ \E a \in Apps, rt \in RateTypes :
          /\ <<a, rt>> # <<last_call.app_id, last_call.rt>>
          /\ Len(InWindow(Entry(requests, a, rt), now)) = max_per_minute

\* The instant at which the pair is next allowed, from the ledger alone:
\* the call instant when under the ceiling, else when the oldest of the last
\* N in-window timestamps leaves the window.
AllowedAgainAt(reqs, app_id, rt, instant) ==
    LET w == InWindow(Entry(reqs, app_id, rt), instant)
    IN  IF Len(w) < max_per_minute THEN instant
        ELSE IF max_per_minute = 0 THEN -1
        ELSE w[Len(w) - max_per_minute + 1] + WindowSecs

\* C4: a denied call records nothing: the pair's in-window timestamps and
\* every other pair's history are as before, and the instant at which the
\* pair is allowed again has not moved.
C4_DeniedRecordsNothing ==
    (last_call.made /\ ~last_call.ok) =>
        /\ InWindow(Entry(requests, last_call.app_id, last_call.rt), last_call.at)
             = InWindow(Entry(last_call.before, last_call.app_id, last_call.rt),
                        last_call.at)
        /\ \A a \in Apps, rt \in RateTypes :
              <<a, rt>> # <<last_call.app_id, last_call.rt>> =>
                  Entry(requests, a, rt) = Entry(last_call.before, a, rt)
        /\ AllowedAgainAt(requests, last_call.app_id, last_call.rt, last_call.at)
             = AllowedAgainAt(last_call.before, last_call.app_id, last_call.rt,
                              last_call.at)

C4_Witness ==
    /\ last_call.made /\ ~last_call.ok
    /\ max_per_minute >= 1
    /\ ncalls > max_per_minute + 1
    /\ \E a \in Apps, rt \in RateTypes :
          /\ <<a, rt>> # <<last_call.app_id, last_call.rt>>
          /\ Entry(requests, a, rt) # <<>>

\* C5: once 60 seconds have passed since the last recorded call of a pair,
\* the next call of the pair is allowed and the pair's count restarts at
\* one; a call is denied only when N calls of the pair were recorded in the
\* 60 seconds ending at it.
C5_WindowElapsedResets ==
    last_call.made =>
        /\ (/\ last_call.prior # <<>>
            /\ last_call.prior[Len(last_call.prior)] + WindowSecs <= last_call.at)
           => /\ last_call.ok
              /\ Entry(requests, last_call.app_id, last_call.rt) = <<last_call.at>>
        /\ ~last_call.ok => Len(InWindow(last_call.prior, last_call.at)) = max_per_minute

C5_Witness ==
    /\ last_call.made /\ last_call.ok
    /\ max_per_minute >= 1
    /\ Len(last_call.prior) = max_per_minute
    /\ last_call.prior[Len(last_call.prior)] + WindowSecs = last_call.at

\* C38: cleanup leaves, for every (app, operation), exactly the timestamps
\* inside the 60-second window and keeps no empty history and no app without
\* one; and every check_and_record call, whenever cleanup ran before it,
\* returns what it returns on the ledger cleanup never touched, the two
\* ledgers holding the same in-window timestamps throughout.
C38_CleanupTransparent ==
    [][/\ (ncalls' = ncalls /\ nticks' = nticks) =>
             /\ \A a \in DOMAIN requests' :
                   /\ DOMAIN requests'[a] # {}
                   /\ \A rt \in DOMAIN requests'[a] : requests'[a][rt] # <<>>
             /\ \A a \in Apps, rt \in RateTypes :
                   Entry(requests', a, rt) = InWindow(Entry(requests, a, rt), now)
       /\ last_call'.made => last_call'.ok = last_call'.uncleaned_ok
       /\ \A a \in Apps, rt \in RateTypes :
             InWindow(Entry(requests', a, rt), now')
                = InWindow(Entry(requests_uncleaned', a, rt), now')]_vars

C38_Witness ==
    /\ last_call.made /\ ~last_call.ok /\ last_call.at = now
    /\ max_per_minute >= 1
    /\ \E a \in Apps :
          /\ a \in DOMAIN requests_uncleaned
          /\ a \notin DOMAIN last_call.before
          /\ a \notin DOMAIN requests
    /\ \E a \in Apps, rt \in RateTypes :
          /\ a \in DOMAIN requests
          /\ rt \in DOMAIN requests_uncleaned[a]
          /\ rt \notin DOMAIN requests[a]

(***************************************************************************)
(* Claims about the bunker signer                                          *)
(***************************************************************************)
\* Config::get_authorized_app(app_id), then check_permission on its record
PolicyAllows(apps, key_op) ==
    \E i \in 1..Len(apps) :
        /\ apps[i].app_id = key_op.peer
        /\ check_permission(apps[i].permissions, key_op.op, Some(key_op.kind))

\* C1: every key operation the dispatcher performs for a remote request
\* (public key read, signing, encryption, decryption) is one the permission
\* check allows for the requesting peer and that operation.
C1_KeyOpOnlyAfterPermission ==
    \A t \in ListenerIds :
        listeners[t].key_op.is_some =>
            PolicyAllows(authorized_apps, listeners[t].key_op.v)

Ended(l) == l.pc \in {"exited", "setup_failed"}

\* C6: the state is Disconnected until a start_listening() has written
\* WaitingForConnection, and that write comes before the listener is spawned:
\* whenever a listener thread exists that no stop() has been raised against,
\* the state is WaitingForConnection (or Connected, once a request came).
C6_WaitingBeforeListener ==
    /\ (/\ \A t \in ListenerIds : listeners[t].pc = "unborn"
        /\ \A c \in Tasks : tasks[c].pc \notin {"reset_flag", "spawn", "store"})
       => state = Disconnected
    /\ \A t \in ListenerIds :
          (Alive(listeners[t]) /\ ~listeners[t].told_to_stop) =>
              state.tag \in {"WaitingForConnection", "Connected"}
    /\ \A t \in ListenerIds :
          (listeners[t].pc = "set_state" /\ ~listeners[t].told_to_stop) =>
              state.tag \in {"WaitingForConnection", "Connected"}

C6_Witness ==
    /\ listeners[1].pc = "notifications"
    /\ ~listeners[1].told_to_stop
    /\ state = WaitingForConnection(connection_string("alice"))
    /\ tasks["task1"] = Returned("start", "Ok")

\* C7: start_listening() calls that overlap spawn one listener between them:
\* two listener threads are alive together only if a stop() was raised
\* against one of them.
C7_ConcurrentStartsSpawnOne ==
    \A t, u \in ListenerIds :
        (t # u /\ Alive(listeners[t]) /\ Alive(listeners[u])) =>
            (listeners[t].told_to_stop \/ listeners[u].told_to_stop)

\* C8: a start_listening() that finds the handle of a running listener returns
\* Ok at once: the state, the stop flag, the listeners, the handle and the key
\* manager are as before.
C8_StartWhileRunningIsNoOp ==
    [][\A c \in Tasks :
          (/\ tasks[c].op = "start" /\ tasks[c].pc = "check"
           /\ tasks'[c] # tasks[c]
           /\ listener_handle.is_some
           /\ Alive(listeners[listener_handle.v]))
          => /\ tasks'[c] = Returned("start", "AlreadyRunning")
             /\ UNCHANGED <<state, stop_flag, listeners, listener_handle, key_manager>>]_vars

C8_Witness ==
    \E c \in Tasks :
        /\ tasks[c] = Returned("start", "AlreadyRunning")
        /\ state.tag = "Connected"
        /\ ~stop_flag
        /\ listener_handle.is_some
        /\ Alive(listeners[listener_handle.v])

\* C9: stop() writes Disconnected, and the state leaves Disconnected only to
\* WaitingForConnection: never from Disconnected straight to Connected.
C9_DisconnectedOnlyToWaiting ==
    [][/\ \A c \in Tasks :
             (tasks[c].pc = "set_disconnected" /\ tasks'[c].pc = "take")
                 => state' = Disconnected
       /\ state.tag = "Disconnected"
             => state'.tag \in {"Disconnected", "WaitingForConnection"}]_vars

\* C10: a listener that was alive when a stop() raised the stop flag
\* eventually ends.
C10_StoppedListenerEnds ==
    \A t \in ListenerIds : listeners[t].told_to_stop ~> Ended(listeners[t])

\* C11: a listener that has read the stop flag as set handles no further
\* event: from that read on it never again holds a notification, decrypts,
\* dispatches or answers.
C11_NoEventAfterCancellationObserved ==
    \A t \in ListenerIds :
        listeners[t].observed_stop =>
            /\ ~listeners[t].notification.is_some
            /\ listeners[t].pc \notin {"set_state", "dispatch", "send", "closure_done"}

\* C12: the state becomes Connected only by a listener that holds a request
\* which decrypted and parsed, and then it is Connected with the sender's
\* public key and no app name; an event that fails to decrypt or to parse
\* leaves the state as it was.
C12_ConnectedOnFirstValidRequest ==
    [][/\ (state' # state /\ state'.tag = "Connected") =>
              \E t \in ListenerIds :
                  /\ listeners[t].pc = "set_state"
                  /\ listeners[t].req.is_some
                  /\ listeners[t].req.v.decrypts /\ listeners[t].req.v.parses
       /\ \A t \in ListenerIds :
              (listeners[t].pc = "set_state" /\ listeners'[t].pc = "dispatch") =>
                  state' = [tag |-> "Connected",
                            client_pubkey |-> pubkey_hex(listeners[t].req.v.sender),
                            app_name |-> None]
       /\ \A t \in ListenerIds :
              (/\ listeners'[t].notification # listeners[t].notification
               /\ listeners'[t].notification.is_some
               /\ ~(listeners'[t].notification.v.decrypts
                    /\ listeners'[t].notification.v.parses))
              => state' = state]_vars

C12_Witness ==
    /\ state = [tag |-> "Connected", client_pubkey |-> pubkey_hex("peerB"),
                app_name |-> None]
    /\ listeners[1].pc = "dispatch"
    /\ listeners[1].req.v.sender = "peerB"
    /\ ~listeners[1].told_to_stop

\* The spec's NoActiveKey is SignerError::NoKeysConfigured.
NoActiveKey == "NoKeysConfigured"

\* C13: a start_listening() that finds no active identity returns
\* NoActiveKey, and leaves the state Disconnected, no listener spawned and no
\* handle stored.
C13_StartWithoutKeyFailsNoActiveKey ==
    \A c \in Tasks :
        (/\ tasks[c].pc = "returned" /\ tasks[c].op = "start"
         /\ ~get_signing_keys(key_manager).ok
         /\ get_signing_keys(key_manager).err = "NoKeysConfigured")
        => /\ tasks[c].result = NoActiveKey
           /\ state = Disconnected
           /\ listener_handle = None
           /\ \A t \in ListenerIds : listeners[t].pc = "unborn"

\* C14: start_listening() has returned Ok only if the listener it left
\* running, once past its connection attempt, has reached at least one relay.
C14_StartOkOnlyWithRelay ==
    \A c \in Tasks :
        tasks[c] = Returned("start", "Ok") =>
            \A t \in ListenerIds :
                (Alive(listeners[t]) /\ listeners[t].pc # "setup") =>
                    listeners[t].relays_connected

\* The listener's closure has just been handed the notification it now holds.
Delivered(t) ==
    /\ listeners'[t].notification # listeners[t].notification
    /\ listeners'[t].notification.is_some

\* C15: an event whose p tags do not include the signer's public key is not
\* decrypted or dispatched, gets no response and leaves the connection state,
\* the key manager and the relays' view as they were.
C15_OnlyEventsTaggedForUs ==
    [][\A t \in ListenerIds :
          /\ (Delivered(t) /\ ~listeners'[t].notification.v.for_us) =>
                /\ listeners'[t].pc = "closure_done"
                /\ listeners'[t].outcome = "ignored"
                /\ ~listeners'[t].req.is_some
                /\ ~listeners'[t].resp.is_some
                /\ ~listeners'[t].key_op.is_some
                /\ UNCHANGED <<state, last_published, key_manager>>
          /\ listeners'[t].req.is_some => listeners'[t].req.v.for_us]_vars

C15_Witness ==
    /\ listeners[1].pc = "closure_done"
    /\ listeners[1].outcome = "ignored"
    /\ listeners[1].notification.is_some
    /\ ~listeners[1].notification.v.for_us
    /\ state.tag = "WaitingForConnection"
    /\ last_published = None

\* C16: an event addressed to us whose content does not decrypt, or does
\* not parse as a request, gets no response: nothing is built or published,
\* and the listener goes on to wait for the next notification.
C16_UndecryptableGetsNoResponse ==
    [][\A t \in ListenerIds :
          /\ (/\ Delivered(t)
              /\ listeners'[t].notification.v.for_us
              /\ ~(listeners'[t].notification.v.decrypts
                   /\ listeners'[t].notification.v.parses)) =>
                /\ listeners'[t].pc = "closure_done"
                /\ listeners'[t].outcome = "handler_error"
                /\ ~listeners'[t].req.is_some
                /\ ~listeners'[t].resp.is_some
                /\ last_published' = last_published
          /\ (/\ listeners[t].pc = "closure_done"
              /\ ~listeners[t].req.is_some
              /\ listeners'[t].pc # listeners[t].pc) =>
                /\ listeners'[t].pc = "notifications"
                /\ last_published' = last_published
          /\ listeners'[t].resp.is_some =>
                listeners'[t].req.v.decrypts /\ listeners'[t].req.v.parses]_vars

C16_Witness ==
    /\ listeners[1].pc = "closure_done"
    /\ listeners[1].outcome = "handler_error"
    /\ listeners[1].notification.is_some
    /\ listeners[1].notification.v.for_us
    /\ ~listeners[1].notification.v.decrypts
    /\ last_published = None
    /\ ~stop_flag

\* A response carrying an error for the request: {id, error}.
IsErrorResponse(resp, req) ==
    /\ resp.is_some
    /\ resp.v.id = req.id
    /\ resp.v.to = req.sender
    /\ "error" \in DOMAIN resp.v

\* The dispatcher finishes with the request listener t holds (the 2 s
\* timeout did not cut it short).
Dispatched(t) ==
    /\ listeners[t].pc = "dispatch"
    /\ listeners'[t].pc \notin {"dispatch", "after_notifications"}

\* C17: a decrypted and parsed request with an unsupported method is
\* answered with an error response that echoes its id.
C17_UnknownMethodGetsError ==
    [][\A t \in ListenerIds :
          (Dispatched(t) /\ listeners[t].req.v.method \notin Methods) =>
              /\ listeners'[t].pc = "send"
              /\ IsErrorResponse(listeners'[t].resp, listeners[t].req.v)]_vars

\* The methods that reach a key operation.
KeyMethods == Methods \ {"connect", "ping"}

\* C18: a request with a known method that the permission policy denies for
\* its sender is answered with an error response, never with a result.
C18_DeniedGetsPermissionError ==
    [][\A t \in ListenerIds :
          (/\ Dispatched(t)
           /\ listeners[t].req.v.method \in KeyMethods
           /\ ~PolicyAllows(authorized_apps,
                            [peer |-> listeners[t].req.v.sender,
                             op |-> MethodRequestType(listeners[t].req.v.method),
                             kind |-> listeners[t].req.v.kind])) =>
              /\ listeners'[t].pc = "send"
              /\ IsErrorResponse(listeners'[t].resp, listeners[t].req.v)]_vars

\* C19: a decrypted and parsed request of a known method that fails while it
\* is handled (here: a parameter is missing) is answered with an error
\* response {id, error}.
C19_HandlerFailureGetsError ==
    [][\A t \in ListenerIds :
          (/\ Dispatched(t)
           /\ listeners[t].req.v.method \in KeyMethods
           /\ ~listeners[t].req.v.params_ok) =>
              /\ listeners'[t].pc = "send"
              /\ IsErrorResponse(listeners'[t].resp, listeners[t].req.v)]_vars

\* C20: an error in handling a request, or a failure to publish the response,
\* leaves the listener running and the state as it was, and the listener goes
\* back to waiting for notifications exactly as before the event.
C20_ErrorsDoNotStopListener ==
    [][\A t \in ListenerIds :
          /\ (/\ listeners'[t].outcome \in {"handler_error", "send_failed"}
              /\ listeners[t].outcome = "none") =>
                /\ Alive(listeners'[t])
                /\ listeners'[t].pc = "closure_done"
                /\ state' = state
                /\ stop_flag' = stop_flag
          /\ (/\ listeners[t].outcome \in {"handler_error", "send_failed"}
              /\ listeners'[t] # listeners[t]
              /\ listeners'[t].told_to_stop = listeners[t].told_to_stop) =>
                /\ listeners'[t] = [listeners[t] EXCEPT
                                       !.pc = "notifications", !.notification = None,
                                       !.req = None, !.resp = None, !.key_op = None,
                                       !.outcome = "none"]
                /\ state' = state
          /\ (listeners[t].pc \in {"dispatch", "send"} /\ Alive(listeners[t])) =>
                Alive(listeners'[t])]_vars

C20_Witness ==
    /\ listeners[1].pc = "closure_done"
    /\ listeners[1].outcome = "send_failed"
    /\ listeners[1].relays_connected
    /\ state.tag = "Connected"
    /\ ~stop_flag

\* C21: a connect request that decrypted and parsed is always answered with
\* "ack", whoever sent it and whatever its parameters, with no key operation
\* and no change to the key manager or the state; a repeated connect of the
\* same sender and id is answered as the one before it was; and the state
\* written for it is Connected to its sender.
C21_ConnectAlwaysAcked ==
    [][\A t \in ListenerIds :
          /\ (Dispatched(t) /\ listeners[t].req.v.method = "connect") =>
                /\ listeners'[t].pc = "send"
                /\ listeners'[t].resp.is_some
                /\ listeners'[t].resp.v.result = JsonString("ack")
                /\ listeners'[t].resp.v.id = listeners[t].req.v.id
                /\ listeners'[t].resp.v.to = listeners[t].req.v.sender
                /\ ~listeners'[t].key_op.is_some
                /\ UNCHANGED <<key_manager, state>>
                /\ (/\ last_published.is_some
                    /\ last_published.v.result = JsonString("ack")
                    /\ last_published.v.to = listeners[t].req.v.sender
                    /\ last_published.v.id = listeners[t].req.v.id)
                   => listeners'[t].resp = last_published
          /\ (/\ listeners[t].pc = "set_state" /\ listeners'[t].pc = "dispatch"
              /\ listeners[t].req.v.method = "connect") =>
                /\ state'.tag = "Connected"
                /\ state'.client_pubkey = pubkey_hex(listeners[t].req.v.sender)]_vars

C21_Witness ==
    /\ listeners[1].pc = "send"
    /\ listeners[1].req.v.method = "connect"
    /\ listeners[1].req.v.sender = "peerB"
    /\ ~listeners[1].req.v.params_ok
    /\ listeners[1].resp.v.result = JsonString("ack")
    /\ last_published = listeners[1].resp
    /\ state = [tag |-> "Connected", client_pubkey |-> pubkey_hex("peerB"),
                app_name |-> None]

\* C22: a response carries the id its request carried.
C22_IdEchoedVerbatim ==
    \A t \in ListenerIds :
        listeners[t].resp.is_some =>
            listeners[t].resp.v.id = listeners[t].req.v.id

\* C23: a response is encrypted to, and tagged with, the public key of the
\* sender of the event it answers, and what is published is the response of
\* the listener that publishes it.
C23_ResponseToSender ==
    [][/\ \A t \in ListenerIds :
             listeners'[t].resp.is_some =>
                /\ listeners'[t].notification.is_some
                /\ listeners'[t].resp.v.to = listeners'[t].notification.v.sender
                /\ listeners'[t].resp.v.tag = listeners'[t].notification.v.sender
       /\ last_published' # last_published =>
             \E t \in ListenerIds :
                /\ listeners[t].pc = "send"
                /\ last_published' = listeners[t].resp
                /\ last_published'.v.to = listeners[t].notification.v.sender
                /\ last_published'.v.tag = listeners[t].notification.v.sender]_vars

C23_Witness ==
    /\ last_published.is_some
    /\ last_published.v.to = "peerA"
    /\ listeners[1].pc = "closure_done"
    /\ listeners[1].outcome = "send_failed"
    /\ listeners[1].notification.v.sender = "peerB"
    /\ listeners[1].resp.v.to = "peerB"
    /\ listeners[1].resp.v.tag = "peerB"

\* C24: a ping that decrypted and parsed is always answered with "pong",
\* whoever sent it, whatever the state was when it came and whether or not
\* the key manager has an active or a cached key.
C24_PingAlwaysPong ==
    [][\A t \in ListenerIds :
          (Dispatched(t) /\ listeners[t].req.v.method = "ping") =>
              /\ listeners'[t].pc = "send"
              /\ listeners'[t].resp.is_some
              /\ listeners'[t].resp.v.result = JsonString("pong")
              /\ listeners'[t].resp.v.to = listeners[t].req.v.sender
              /\ ~listeners'[t].key_op.is_some
              /\ UNCHANGED key_manager]_vars

C24_Witness ==
    /\ listeners[1].pc = "send"
    /\ listeners[1].req.v.method = "ping"
    /\ listeners[1].req.v.sender = "peerB"
    /\ listeners[1].resp.v.result = JsonString("pong")
    /\ ~key_manager.active_key.is_some
    /\ ~key_manager.cached_keys.is_some
    /\ last_published = None

C26_KindOutOfRangeNotSigned ==
    \A t \in ListenerIds :
        (/\ listeners[t].req.is_some
         /\ listeners[t].req.v.method = "sign_event"
         /\ listeners[t].req.v.kind \notin 0..U16Max) =>
            /\ ~listeners[t].key_op.is_some
            /\ listeners[t].resp.is_some => "error" \in DOMAIN listeners[t].resp.v

(***************************************************************************)
(* Claims about the key manager                                            *)
(***************************************************************************)
\* The cache, when filled, holds the key pair the keyring has under the
\* active name, and get_signing_keys yields that key pair.
CacheIsActive(km) ==
    /\ km.cached_keys.is_some =>
          /\ km.active_key.is_some
          /\ km.active_key.v \in DOMAIN km.keyring
          /\ km.cached_keys.v = km.keyring[km.active_key.v]
    /\ get_signing_keys(km).ok =>
          /\ km.active_key.is_some
          /\ km.active_key.v \in DOMAIN km.keyring
          /\ get_signing_keys(km).keys = km.keyring[km.active_key.v]

\* C27: after any sequence of generate/import, set_active_key, delete_key,
\* lock and get_signing_keys, cached keys are the keys of the active
\* identity; a step that changes the active identity leaves nothing cached,
\* and get_signing_keys then returns the new active identity's keys.
C27_CacheFollowsActive ==
    [][/\ CacheIsActive(key_manager')
       /\ key_manager'.active_key # key_manager.active_key =>
             ~key_manager'.cached_keys.is_some]_vars

C27_Witness ==
    /\ DOMAIN key_manager.keys = {"main", "alt"}
    /\ key_manager.keyring["main"] # key_manager.keyring["alt"]
    /\ key_manager.active_key = Some("alt")
    /\ ~key_manager.keys["main"].is_active
    /\ key_manager.keys["alt"].is_active
    /\ key_manager.cached_keys = Some(key_manager.keyring["alt"])

\* C28: whenever at least one key is stored, exactly one stored key has
\* is_active set, and it is the key active_key names.
C28_ExactlyOneActive ==
    DOMAIN key_manager.keys # {} =>
        /\ key_manager.active_key.is_some
        /\ {n \in DOMAIN key_manager.keys : key_manager.keys[n].is_active}
             = {key_manager.active_key.v}

\* C39: starting from no keys, after every generate/import, set_active_key
\* and delete_key, active_key is None exactly when no key is stored and
\* otherwise names a stored key; the first key stored becomes the active one,
\* and a step that adds a key to stored keys leaves active_key as it was.
C39_ActiveNamesStoredKey ==
    [][/\ ~key_manager'.active_key.is_some <=> DOMAIN key_manager'.keys = {}
       /\ key_manager'.active_key.is_some =>
             key_manager'.active_key.v \in DOMAIN key_manager'.keys
       /\ (DOMAIN key_manager.keys = {} /\ DOMAIN key_manager'.keys # {}) =>
             \E n \in KeyNames :
                /\ DOMAIN key_manager'.keys = {n}
                /\ key_manager'.active_key = Some(n)
       /\ (DOMAIN key_manager.keys # {}
             /\ DOMAIN key_manager'.keys # DOMAIN key_manager.keys
             /\ DOMAIN key_manager.keys \subseteq DOMAIN key_manager'.keys) =>
             key_manager'.active_key = key_manager.active_key]_vars

C39_Witness ==
    /\ DOMAIN key_manager.keys = KeyNames
    /\ key_manager.active_key = Some("spare")
    /\ key_manager.keys["spare"].is_active
    /\ ~key_manager.cached_keys.is_some

\* The in-memory key set, the active identity and the cached secret.
InMemory(km) == <<km.keys, km.active_key, km.cached_keys>>

\* C40: a step that an erroring generate/import, set_active_key or
\* delete_key call makes leaves the in-memory key set, the active identity
\* and the cached secret as they were.
C40_ErrorLeavesManagerUnchanged ==
    [][\A name \in KeyNames, keyring_ok \in BOOLEAN, save_ok \in BOOLEAN :
          /\ \A keys \in Secrets :
                LET r == generate_key(key_manager, name, keys, keyring_ok, save_ok)
                IN  (~r.ok /\ key_manager' = r.km) =>
                        InMemory(key_manager') = InMemory(key_manager)
          /\ LET r == set_active_key(key_manager, name, save_ok)
             IN  (~r.ok /\ key_manager' = r.km) =>
                     InMemory(key_manager') = InMemory(key_manager)
          /\ \A next \in keys_next(Remove(key_manager.keys, name)) :
                LET r == delete_key(key_manager, name, next, keyring_ok, save_ok)
                IN  (~r.ok /\ key_manager' = r.km) =>
                        InMemory(key_manager') = InMemory(key_manager)]_vars

(***************************************************************************)
(* Claims about the authorization list                                     *)
(***************************************************************************)
\* The records of the list whose app_id is not the given one, in order.
Others(apps, app_id) == SelectSeq(apps, LAMBDA a : a.app_id # app_id)

\* C29: starting from the empty list, no two records of the authorization
\* list carry the same app_id; authorize_app of an app_id already present
\* puts the new record in the place of the old one and adds none, of an
\* absent one appends it; after revoke_app(id) the app is not authorized;
\* either call leaves the other apps' records as they were.
C29_AppIdUnique ==
    /\ \A i, j \in 1..Len(authorized_apps) :
          authorized_apps[i].app_id = authorized_apps[j].app_id => i = j
    /\ config_call.made =>
          /\ Others(authorized_apps, config_call.app_id)
               = Others(config_call.before, config_call.app_id)
          /\ config_call.op = "authorize_app" =>
                /\ is_app_authorized(authorized_apps, config_call.app_id)
                /\ get_authorized_app(authorized_apps, config_call.app_id)
                     = config_call.app
                /\ Len(authorized_apps) =
                      IF is_app_authorized(config_call.before, config_call.app_id)
                      THEN Len(config_call.before)
                      ELSE Len(config_call.before) + 1
          /\ config_call.op = "revoke_app" =>
                ~is_app_authorized(authorized_apps, config_call.app_id)

C29_Witness ==
    /\ config_call.made /\ config_call.op = "authorize_app"
    /\ Len(config_call.before) = 2
    /\ config_call.before[1].app_id = config_call.app_id
    /\ config_call.before[1] # config_call.app.v
    /\ Len(authorized_apps) = 2
    /\ authorized_apps[1] = config_call.app.v

(***************************************************************************)
(* Claims about the local transport                                        *)
(***************************************************************************)
\* C30: a D-Bus call that names an app_id absent from the authorization list
\* is answered with an error envelope, and no signing, encryption or
\* decryption was performed for it.
C30_AbsentAppNotAuthorized ==
    (/\ dbus_reply.made
     /\ dbus_reply.app_id.is_some
     /\ ~is_app_authorized(authorized_apps, dbus_reply.app_id.v))
    => /\ ~dbus_reply.success
       /\ dbus_reply.error.is_some
       /\ ~dbus_reply.key_op.is_some

\* The listener is in its event loop.
InLoop(l) ==
    l.pc \in {"loop_top", "notifications", "set_state", "dispatch", "send",
              "closure_done", "after_notifications"}

\* C34: over any sequence of start_listening() and stop() calls made one
\* after the other, at most one listener is in its event loop at any time.
C34_AtMostOneListenerLoop ==
    \A t, u \in ListenerIds :
        (InLoop(listeners[t]) /\ InLoop(listeners[u])) => t = u

\* A start_listening() call is between its first statement and its return.
StartInProgress == \E c \in Tasks : tasks[c].op = "start" /\ tasks[c].pc # "returned"

\* C35: outside of a start_listening() in progress, the state is
\* WaitingForConnection or Connected only while a listener thread is alive;
\* and a start_listening() returns as already running only when one is.
C35_StateImpliesListener ==
    [][/\ (~StartInProgress' /\ state'.tag \in {"WaitingForConnection", "Connected"})
             => \E t \in ListenerIds : Alive(listeners'[t])
       /\ \A c \in Tasks :
             (/\ tasks[c].op = "start" /\ tasks[c].pc = "check"
              /\ tasks'[c] = Returned("start", "AlreadyRunning"))
             => \E t \in ListenerIds : Alive(listeners[t])]_vars

\* C36: a listener uses one identity: the key a request's operation is
\* performed with (the one get_public_key reports, the one sign_event signs
\* with, the one that encrypts or decrypts) is the key that signs and
\* encrypts the response envelope, the listener's own.
C36_OneIdentity ==
    \A t \in ListenerIds :
        (listeners[t].resp.is_some /\ listeners[t].key_op.is_some) =>
            /\ listeners[t].resp.v.signed_by = listeners[t].keys.v
            /\ listeners[t].key_op.v.identity = listeners[t].resp.v.signed_by

\* The signed event carries what was asked for.
Carries(event, event_data) ==
    /\ event.kind = event_data.kind
    /\ event.content = event_data.content
    /\ event_data.created_at.is_some => event.created_at = event_data.created_at.v
    /\ \A i \in 1..Len(event_data.tags) :
          event_data.tags[i] # <<>> =>
              \E j \in 1..Len(event.tags) : event.tags[j] = event_data.tags[i]

\* C37: for an unsigned event the local path signs, the bunker path signs
\* too, and both signed events carry the requested kind, content and
\* created_at and every requested tag, under the same key.
C37_SamePathsSameEvent ==
    (/\ sign_call.made
     /\ sign_call.bunker.is_some /\ sign_call.local.is_some
     /\ sign_call.local.v.ok)
    => /\ Carries(sign_call.local.v.event.v, sign_call.event_data)
       /\ sign_call.bunker.v.ok
       /\ Carries(sign_call.bunker.v.event.v, sign_call.event_data)
       /\ sign_call.bunker.v.event.v.tags = sign_call.local.v.event.v.tags
       /\ sign_call.bunker.v.event.v.sig = sign_call.local.v.event.v.sig

(***************************************************************************)
(* Claims about the connection URIs                                        *)
(***************************************************************************)
\* The text `sub` is found in `str`.
Appears(sub, str) ==
    \E i \in 0..(Len(str) - Len(sub)) : SubSeq(str, i + 1, i + Len(sub)) = sub

\* C31: the connection string stored in WaitingForConnection begins with the
\* scheme and the signer's public key, and every configured relay appears in
\* it (as written, or percent-encoded).
C31_WaitingUriHasRelays ==
    state.tag = "WaitingForConnection" =>
        /\ \E keys \in Secrets :
              SubSeq(state.connection_string, 1, Len(BunkerScheme) + 1)
                 = BunkerScheme \o text_of(pubkey_hex(keys))
        /\ \A i \in 1..Len(relays) :
              \/ Appears(relays[i], state.connection_string)
              \/ Appears(encode(relays[i]), state.connection_string)

\* Percent-encoding as the claim words it: an unreserved char stays, every
\* byte of any other char becomes '%' and two upper-case hex digits.
RECURSIVE PercentEncoded(_)
PercentEncoded(str) ==
    IF str = <<>> THEN <<>>
    ELSE LET c == Head(str)
             bytes == as_bytes(c)
             hex(b) == <<"%", HexDigits[(b \div 16) + 1], HexDigits[(b % 16) + 1]>>
         IN  (IF c \in Unreserved THEN <<c>>
              ELSE IF Len(bytes) = 1 THEN hex(bytes[1])
              ELSE hex(bytes[1]) \o hex(bytes[2]))
             \o PercentEncoded(Tail(str))

\* scheme://<hex pubkey>, then '?' and the parameters joined by '&' when
\* there are any: relay=<value> per relay in order, then secret=<value>.
RECURSIVE RelayParams(_)
RelayParams(relay_list) ==
    IF relay_list = <<>> THEN <<>>
    ELSE <<RelayParam \o PercentEncoded(Head(relay_list))>>
         \o RelayParams(Tail(relay_list))

RECURSIVE AmpersandJoined(_)
AmpersandJoined(params) ==
    IF Len(params) = 1 THEN params[1]
    ELSE params[1] \o <<"&">> \o AmpersandJoined(Tail(params))

ReferenceUri(keys, relay_list, shared_secret) ==
    LET params == RelayParams(relay_list)
                  \o (IF shared_secret.is_some
                      THEN <<SecretParam \o PercentEncoded(shared_secret.v)>>
                      ELSE <<>>)
    IN  BunkerScheme \o text_of(pubkey_hex(keys))
        \o (IF params = <<>> THEN <<>> ELSE <<"?">> \o AmpersandJoined(params))

\* C32: the URI generate_bunker_uri returns is the scheme, the signer's hex
\* public key and the percent-encoded parameters, as the reference writes
\* them.
C32_UriFormat ==
    (uri_call.made /\ uri_call.result.ok) =>
        /\ key_manager.active_key.is_some
        /\ uri_call.result.uri
              = ReferenceUri(key_manager.keyring[key_manager.active_key.v], relays, secret)

\* The parameters alone: what follows the public key is as the reference
\* writes it.
UriParametersAsReference ==
    (uri_call.made /\ uri_call.result.ok) =>
        LET n == Len(BunkerScheme) + 1
            ref == ReferenceUri(key_manager.keyring[key_manager.active_key.v],
                                relays, secret)
        IN  /\ Len(uri_call.result.uri) = Len(ref)
            /\ SubSeq(uri_call.result.uri, n + 1, Len(ref)) = SubSeq(ref, n + 1, Len(ref))
            /\ SubSeq(uri_call.result.uri, 1, n - 1) = BunkerScheme

(***************************************************************************)
(* Claims about the locks                                                  *)
(***************************************************************************)
\* The path stands at a lock() of a mutex another path holds.
Waits(p, l) ==
    /\ Running(p) /\ Current(p).op = "lock" /\ Current(p).arg = l
    /\ Holder(l).is_some

\* The path can take its next step.
CanStep(p) ==
    Running(p) /\ (Current(p).op = "lock" => ~Holder(Current(p).arg).is_some)

\* C33: the path that holds the state lock is neither waiting for the
\* key-manager lock nor in a cryptographic operation or a keyring access, so
\* whoever waits for the state lock (a state() read) waits for a holder that
\* can go on; and some running path can always take a step (no deadlock).
C33_StateLockIndependent ==
    /\ \A p \in PathNames :
          state_lock = Some(p) =>
              /\ Running(p)
              /\ ~(Current(p).op = "lock" /\ Current(p).arg = "key_manager")
              /\ ~(Current(p).op = "work" /\ Current(p).arg \in CryptoWork)
    /\ \A p \in PathNames : Waits(p, "state") => CanStep(state_lock.v)
    /\ (\E p \in PathNames : Running(p)) => \E p \in PathNames : CanStep(p)

C33_Witness ==
    /\ km_lock = Some("request")
    /\ Current("request") = Work("sign")
    /\ paths["state"].at = 3
    /\ state_lock = Some("state")
    /\ Waits("stop", "state")
    /\ Waits("start_listening", "key_manager")

(***************************************************************************)
(* Specifications                                                          *)
(***************************************************************************)
InitPerm == PermInit /\ RateIdle /\ BunkerIdle /\ LocalIdle /\ CallIdle
SpecPerm == InitPerm /\ [][CheckPermission]_vars
InitRate == RateInit /\ PermIdle /\ BunkerIdle /\ LocalIdle /\ CallIdle
RateNext == Tick \/ CheckAndRecord
SpecRate == InitRate /\ [][RateNext]_vars

CleanupNext == Tick \/ CheckAndRecord \/ Cleanup
SpecCleanup == InitRate /\ [][CleanupNext]_vars

KeysNext == KeyNext(KeyNames, Secrets)
InitKeys == BunkerIdle /\ PermIdle /\ RateIdle /\ LocalIdle /\ CallIdle
SpecKeys == InitKeys /\ [][KeysNext]_vars

ConfigNext == AuthorizeApp \/ RevokeApp
InitConfig == LocalIdle /\ BunkerIdle /\ PermIdle /\ RateIdle /\ CallIdle
SpecConfig == InitConfig /\ [][ConfigNext]_vars

InitUri == UriInit /\ PermIdle /\ RateIdle /\ LocalIdle
SpecUri == InitUri /\ [][GenerateBunkerUri]_vars

\* The identity specification: two keys are stored, "main" is the active one;
\* the listener serves the key methods while the holder of the key manager
\* changes the active key or deletes a key.
IdentityKeyNames == {"main", "alt"}
IdentityEvents ==
    {Event("peerA", TRUE, TRUE, TRUE, m, JsonString("id1"), TRUE, 1) :
        m \in {"get_public_key", "sign_event", "nip04_encrypt"}}
IdentityInit ==
    /\ state = Disconnected
    /\ stop_flag = FALSE
    /\ listener_handle = None
    /\ key_manager = store_key(KeyManagerWith("main", "alice"), "alt", "bob", TRUE, TRUE).km
    /\ authorized_apps = BunkerAuthorizedApps
    /\ tasks = [c \in Tasks |-> IdleTask]
    /\ listeners = [t \in ListenerIds |-> UnbornListener]
    /\ last_published = None
IdentityNext ==
    \/ BunkerNext({"task1"}, {1}, IdentityEvents, RelaysUp)
    \/ SetActiveKey(IdentityKeyNames)
    \/ DeleteKey(IdentityKeyNames)
InitIdentity == IdentityInit /\ PermIdle /\ RateIdle /\ LocalIdle /\ CallIdle
SpecIdentity == InitIdentity /\ [][IdentityNext]_vars

SignNext == BunkerSignEvent \/ LocalSignEvent
InitSign == SignInit /\ PermIdle /\ RateIdle /\ LocalIdle
SpecSign == InitSign /\ [][SignNext]_vars

InitLocks == BunkerIdle /\ PermIdle /\ RateIdle /\ LocalIdle /\ CallIdle
SpecLocks == InitLocks /\ [][LocksNext]_vars

InitDbus == DbusInit /\ PermIdle /\ RateIdle /\ CallIdle
SpecDbus == InitDbus /\ [][DbusCall]_vars

BunkerLifecycleNext == BunkerNext(Tasks, ListenerIds, LifecycleEvents, RelaysUp)
InitBunker == BunkerInit /\ PermIdle /\ RateIdle /\ LocalIdle /\ CallIdle
SpecBunker == InitBunker /\ [][BunkerLifecycleNext]_vars

\* The listener thread keeps being scheduled, and a call of start_listening()
\* or stop() that has begun runs to its end; nothing obliges a caller to call
\* again, nor a peer to send an event.
BunkerFairness ==
    /\ \A t \in ListenerIds : WF_vars(ListenerInternal(t, RelaysUp))
    /\ \A c \in Tasks : WF_vars(TaskContinues(c, ListenerIds))
BunkerSequentialNext == BunkerNext({"task1"}, ListenerIds, LifecycleEvents, RelaysUp)
SpecSequential == InitBunker /\ [][BunkerSequentialNext]_vars
SpecSequentialFair == SpecSequential /\ BunkerFairness

\* The dispatch specification also has the holder of the key manager store,
\* delete and lock the key while the listener runs.
DispatchKeyNames == {"main"}
DispatchSecrets == {"alice"}
BunkerDispatchNext ==
    \/ BunkerNext({"task1"}, {1}, DispatchEvents, RelaysUpOrDown)
    \/ KeyNext(DispatchKeyNames, DispatchSecrets)
SpecDispatch == InitBunker /\ [][BunkerDispatchNext]_vars
====
